---- MODULE Spec2Model ----
(***************************************************************************)
(* Model of the AI provider layer (AIService + AzureAIProvider) and of the *)
(* exploration controller of spt-research.                                 *)
(*                                                                         *)
(* Strings are modelled as sequences of one-character strings, so that     *)
(* concatenation, toLowerCase and String.prototype.includes are computed   *)
(* as the code computes them.                                              *)
(***************************************************************************)
EXTENDS Integers, Sequences, FiniteSets, TLC

VARIABLES
    \* ---- AIService / AzureAIProvider fields
    isInitialized,      \* AIService.isInitialized
    activeProvider,     \* AIService.activeProvider
    anthropicClient,    \* AIService.anthropicClient !== null
    azureInitialized,   \* azureAIProvider.isInitialized && config !== null
    switchRejected,     \* the last call on the service was a setActiveProvider that threw
    \* ---- one AIService.execute request in flight
    phase,              \* "idle" | "primary" | "failover" | "done"
    target,             \* provider the call in flight is addressed to
    stream,             \* options.stream of the request
    probe,              \* the request is the one testConnection awaits
    attempt,            \* executeWithRetry's attempt parameter
    waiting,            \* TRUE while executeWithRetry sleeps before a retry
    primary,            \* provider tried in the try block of execute
    primaryError,       \* the error caught by execute's catch (error)
    fallbackTo,         \* provider chosen in the catch block, or "none"
    calls,              \* provider |-> number of provider calls of the request
    delays,             \* the setTimeout delays of executeWithRetry, in order
    chunks,             \* the StreamChunks handed to options.onChunk, in order
    outcome,            \* "none" | "ok" | "error"
    response,           \* the AIResponse returned (when outcome = "ok")
    raised,             \* the error execute rejected with (when outcome = "error")
    \* ---- what the environment did during the request (history)
    arrived,            \* the text/reasoning fragments sent by the providers
    lastBody,           \* shape of the body that produced the response
    sent,               \* the completion text the answering provider sent
    budget,             \* stream frames the environment may still send
    lastError,          \* the error executeWithRetry is about to retry after
    faults,             \* which provider calls of the request have failed, and how
    \* ---- exploration controller (Journey)
    status,             \* Journey status
    cpc,                \* position of the controller loop
    stages,             \* the Journey's stage sequence
    previousStages,     \* context.previousStages, as stage numbers
    windows,            \* the lastStages of each createMiniSynthesis, in order
    pauseRequested,     \* pause() seen, not yet honoured
    pausedDuring,       \* number of the stage in flight when pause() was seen
    stopRequested,      \* stop() seen, not yet honoured
    stoppedDuring,      \* number of the stage in flight when stop() was seen
    promptsBuilt,       \* number of stage prompts built so far
    synthesisCount,     \* context.synthesisCount
    insights,           \* context.insights (legacy strings)
    richInsights,       \* context.richInsights (categories)
    config,             \* ExplorationConfig of the Journey
    onError,            \* the errors reported to the observer, in order
    logged,             \* number of synthesis failures logged by createMiniSynthesis
    \* ---- model id translation and artifact extraction on their own
    model,              \* the model id at hand
    hops,               \* the translations applied to it, in order
    written,            \* the fenced blocks the completion text was written with
    content,            \* the completion text handed to extractArtifacts
    extractions         \* the artifact lists extracted from it, in order

svcVars == <<isInitialized, activeProvider, anthropicClient, azureInitialized,
             switchRejected,
             phase, target, stream, probe, attempt, waiting, primary, primaryError,
             fallbackTo, calls, delays, chunks, outcome, response, raised,
             arrived, lastBody, sent, budget, lastError, faults>>

ctlVars == <<status, cpc, stages, previousStages, windows, pauseRequested, pausedDuring, stopRequested, stoppedDuring, promptsBuilt,
             synthesisCount, insights, richInsights, config, onError, logged>>

toolVars == <<model, hops, written, content, extractions>>

vars == <<svcVars, ctlVars, toolVars>>

----------------------------------------------------------------------------
\* Bounds of the model

\* stream frames / events the providers send during one execute request
MaxFrames == 2

\* stages a Journey may run when maxDepth is unbounded
MaxStages == 6

----------------------------------------------------------------------------
\* Strings

Upper == <<"A","B","C","D","E","F","G","H","I","J","K","L","M",
           "N","O","P","Q","R","S","T","U","V","W","X","Y","Z">>

Lower == <<"a","b","c","d","e","f","g","h","i","j","k","l","m",
           "n","o","p","q","r","s","t","u","v","w","x","y","z">>

LowerChar(c) ==
    IF \E i \in 1..Len(Upper) : Upper[i] = c
    THEN Lower[CHOOSE i \in 1..Len(Upper) : Upper[i] = c]
    ELSE c

\* String.prototype.toLowerCase
ToLowerCase(s) == [i \in 1..Len(s) |-> LowerChar(s[i])]

\* String.prototype.includes
Includes(s, k) ==
    \E i \in 0..(Len(s) - Len(k)) : SubSeq(s, i + 1, i + Len(k)) = k

Providers == {"azure", "anthropic"}

Other(p) == IF p = "azure" THEN "anthropic" ELSE "azure"

----------------------------------------------------------------------------
\* Error messages (Error.message), as the code and its runtime produce them

MsgServiceNotInitialized == <<"A","I"," ","S","e","r","v","i","c","e"," ","n","o","t"," ","i","n","i","t","i","a","l","i","z","e","d","."," ","C","a","l","l"," ","i","n","i","t","i","a","l","i","z","e","(",")"," ","f","i","r","s","t",".">>

MsgAzureNotInitialized == <<"A","z","u","r","e"," ","A","I"," ","p","r","o","v","i","d","e","r"," ","n","o","t"," ","i","n","i","t","i","a","l","i","z","e","d">>

MsgAnthropicNotInitialized == <<"A","n","t","h","r","o","p","i","c"," ","c","l","i","e","n","t"," ","n","o","t"," ","i","n","i","t","i","a","l","i","z","e","d">>

MsgNoResponseBody == <<"N","o"," ","r","e","s","p","o","n","s","e"," ","b","o","d","y">>

\* TypeError of fetch() when the connection cannot be made or is reset
MsgFetchFailed == <<"f","e","t","c","h"," ","f","a","i","l","e","d">>

\* TypeError of reader.read() when the connection drops while streaming
MsgNetworkError == <<"n","e","t","w","o","r","k"," ","e","r","r","o","r">>

\* SyntaxError of response.json() on a body that is not JSON
MsgUnexpectedToken == <<"U","n","e","x","p","e","c","t","e","d"," ","t","o","k","e","n"," ","<"," ","i","n"," ","J","S","O","N"," ","a","t"," ","p","o","s","i","t","i","o","n"," ","0">>

\* messages of the Anthropic SDK's APIError
MsgOverloaded == <<"5","0","3"," ","O","v","e","r","l","o","a","d","e","d">>

MsgInvalidKey == <<"4","0","1"," ","i","n","v","a","l","i","d"," ","x","-","a","p","i","-","k","e","y">>

\* error bodies an endpoint returns with a non-2xx status
BodyEmpty == << >>

BodyDenied == <<"A","c","c","e","s","s"," ","d","e","n","i","e","d">>

BodyRequestId == <<"A","c","c","e","s","s"," ","d","e","n","i","e","d"," ","(","r","e","q","u","e","s","t"," ","5","0","3","1",")">>

S401 == <<"4","0","1">>

S429 == <<"4","2","9">>

S502 == <<"5","0","2">>

S503 == <<"5","0","3">>

AzureErrorPrefix == <<"A","z","u","r","e"," ","A","I"," ","e","r","r","o","r",":"," ">>

\* `Azure AI error: ${response.status} - ${error}`
AzureErrorMessage(st, body) == AzureErrorPrefix \o st \o <<" ","-"," ">> \o body

NoError == [kind |-> "none", status |-> << >>, message |-> << >>,
            from |-> "none", phase |-> "none"]

\* An error value: kind and status are what happened (the environment's
\* truth), message is what the code can see.
MkError(k, st, msg, p, ph) ==
    [kind |-> k, status |-> st, message |-> msg, from |-> p, phase |-> ph]

\* The failure classes the retry policy is specified over: a timeout, a
\* connection reset, or HTTP 429/502/503.
Transient(e) ==
    \/ e.kind \in {"timeout", "reset"}
    \/ e.kind = "http" /\ e.status \in {S429, S502, S503}

retryableKeywords == {
    <<"n","e","t","w","o","r","k"," ","e","r","r","o","r">>,
    <<"f","e","t","c","h"," ","f","a","i","l","e","d">>,
    <<"t","i","m","e","o","u","t">>,
    <<"c","o","n","n","e","c","t","i","o","n"," ","r","e","s","e","t">>,
    <<"s","o","c","k","e","t"," ","h","a","n","g"," ","u","p">>,
    <<"e","c","o","n","n","r","e","s","e","t">>,
    <<"4","2","9">>,
    <<"5","0","3">>,
    <<"5","0","2">> }

\* AzureAIProvider.isRetryableError: every error of the model is an Error
\* instance, so the instanceof test passes.
isRetryableError(e) ==
    LET errorMessage == ToLowerCase(e.message)
    IN  \E keyword \in retryableKeywords : Includes(errorMessage, keyword)

MAX_RETRIES == 3

RETRY_DELAY_MS == 2000

RECURSIVE Pow2(_)
Pow2(n) == IF n = 0 THEN 1 ELSE 2 * Pow2(n - 1)

\* a retryable error is retried whatever the attempt number
shouldRetry_NoCeiling(e, n) == isRetryableError(e)

\* executeWithRetry: shouldRetry
shouldRetry(e, n) == isRetryableError(e) /\ n < MAX_RETRIES

\* the exponent is the attempt number instead of the retry number
RetryDelay_FromAttempt(n) == RETRY_DELAY_MS * Pow2(n)

\* executeWithRetry: delay
RetryDelay(n) == RETRY_DELAY_MS * Pow2(n - 1)

----------------------------------------------------------------------------
\* What the endpoints can answer

\* non-2xx answers of the Azure endpoint: <<status, body>>
AzureErrorResponses == {
    <<S401, BodyDenied>>, <<S401, BodyRequestId>>,
    <<S429, BodyEmpty>>, <<S503, BodyEmpty>> }

\* the answer testConnection asks for
ConnectionOk == <<"C","O","N","N","E","C","T","I","O","N","_","O","K">>

\* 2xx bodies of the non-streaming Azure endpoint
AzureBodies == {
    [json |-> TRUE,  shape |-> "full",      content |-> ConnectionOk],
    [json |-> FALSE, shape |-> "none",      content |-> << >>],
    [json |-> TRUE,  shape |-> "noChoices", content |-> << >>],
    [json |-> TRUE,  shape |-> "noContent", content |-> << >>],
    [json |-> TRUE,  shape |-> "full",      content |-> << >>],
    [json |-> TRUE,  shape |-> "full",      content |-> <<"a">>] }

\* frames of an Azure event stream, as the server sends them; split says
\* that the transport delivered the frame in two reads
Frame(k, c, th, sp) == [kind |-> k, content |-> c, thinking |-> th, split |-> sp]

Frames == {
    Frame("delta", <<"a">>, << >>, FALSE),
    Frame("delta", << >>, <<"t">>, FALSE),
    Frame("delta", <<"a">>, << >>, TRUE),
    Frame("garbage", << >>, << >>, FALSE),
    Frame("[DONE]", << >>, << >>, FALSE) }

\* the elements of a sequence
Range(s) == { s[i] : i \in 1..Len(s) }

\* sequences over S of length at most n
SeqsUpTo(S, n) == UNION { [1..k -> S] : k \in 0..n }

\* a line of a read chunk: whether it starts with 'data: ', and what
\* follows the prefix
Line(sw, d, c, th) == [startsWithData |-> sw, data |-> d, content |-> c, thinking |-> th]

\* the read chunks a frame arrives in, each a sequence of lines: a frame cut
\* by the transport arrives as an incomplete 'data: {...' line and a rest
ReadsOf(f) ==
    IF f.kind = "delta" /\ f.split
    THEN << <<Line(TRUE, "garbage", << >>, << >>)>>,
            <<Line(FALSE, "garbage", << >>, << >>)>> >>
    ELSE IF f.kind = "delta"
    THEN << <<Line(TRUE, "json", f.content, f.thinking)>> >>
    ELSE << <<Line(TRUE, f.kind, << >>, << >>)>> >>

RECURSIVE Transport(_)
Transport(fs) ==
    IF fs = << >> THEN << >> ELSE ReadsOf(Head(fs)) \o Transport(Tail(fs))

Chunk(ty, c, done) == [type |-> ty, content |-> c, isComplete |-> done]

CompleteChunk == Chunk("content", << >>, TRUE)

EmptyAcc == [fullContent |-> << >>, fullThinking |-> << >>, chunks |-> << >>]

\* executeStreaming, body of the for loop over the lines of a read chunk
ProcessLine(acc, line) ==
    IF line.data = "[DONE]" THEN acc
    ELSE IF line.data # "json" THEN acc          \* JSON.parse throws: skipped
    ELSE
      LET a1 == IF line.content # << >>
                THEN [acc EXCEPT !.fullContent = @ \o line.content,
                                 !.chunks = Append(@, Chunk("content", line.content, FALSE))]
                ELSE acc
      IN  IF line.thinking # << >>
          THEN [a1 EXCEPT !.fullThinking = @ \o line.thinking,
                          !.chunks = Append(@, Chunk("thinking", line.thinking, FALSE))]
          ELSE a1

RECURSIVE ProcessLines(_, _)
ProcessLines(acc, lines) ==
    IF lines = << >> THEN acc
    ELSE ProcessLines(ProcessLine(acc, Head(lines)), Tail(lines))

\* executeStreaming: chunk.split('\n').filter(line => line.startsWith('data: '))
DataLines(read) == SelectSeq(read, LAMBDA l : l.startsWithData)

\* executeStreaming, the while loop over reader.read()
RECURSIVE ProcessReads(_, _)
ProcessReads(acc, reads) ==
    IF reads = << >> THEN acc
    ELSE ProcessReads(ProcessLines(acc, DataLines(Head(reads))), Tail(reads))

\* the fragments a stream carries, in the order sent
RECURSIVE FragmentsOf(_)
FragmentsOf(fs) ==
    IF fs = << >> THEN << >>
    ELSE LET f == Head(fs)
             c == IF f.kind = "delta" /\ f.content # << >>
                  THEN <<Chunk("content", f.content, FALSE)>> ELSE << >>
             t == IF f.kind = "delta" /\ f.thinking # << >>
                  THEN <<Chunk("thinking", f.thinking, FALSE)>> ELSE << >>
         IN  c \o t \o FragmentsOf(Tail(fs))

RECURSIVE ContentOf(_)
ContentOf(frs) ==
    IF frs = << >> THEN << >>
    ELSE (IF Head(frs).type = "content" THEN Head(frs).content ELSE << >>)
         \o ContentOf(Tail(frs))

\* TRUE when every 'data: ' line of the stream could be parsed
Parseable(fs) ==
    \A i \in 1..Len(fs) : fs[i].kind # "garbage" /\ ~(fs[i].kind = "delta" /\ fs[i].split)

\* events of the Anthropic SDK's message stream
Events == {
    [type |-> "text_delta", text |-> <<"a">>],
    [type |-> "thinking_delta", text |-> <<"t">>],
    [type |-> "message_delta", text |-> << >>] }

\* executeAnthropicStreaming, body of the for-await loop
ProcessEvent(acc, ev) ==
    IF ev.type = "text_delta"
    THEN [acc EXCEPT !.fullContent = @ \o ev.text,
                     !.chunks = Append(@, Chunk("content", ev.text, FALSE))]
    ELSE IF ev.type = "thinking_delta" /\ ev.text # << >>
    THEN [acc EXCEPT !.fullThinking = @ \o ev.text,
                     !.chunks = Append(@, Chunk("thinking", ev.text, FALSE))]
    ELSE acc

RECURSIVE ProcessEvents(_, _)
ProcessEvents(acc, evs) ==
    IF evs = << >> THEN acc
    ELSE ProcessEvents(ProcessEvent(acc, Head(evs)), Tail(evs))

RECURSIVE EventFragments(_)
EventFragments(evs) ==
    IF evs = << >> THEN << >>
    ELSE (IF Head(evs).type = "text_delta"
          THEN <<Chunk("content", Head(evs).text, FALSE)>>
          ELSE IF Head(evs).type = "thinking_delta"
          THEN <<Chunk("thinking", Head(evs).text, FALSE)>>
          ELSE << >>) \o EventFragments(Tail(evs))

\* text blocks of a non-streaming Anthropic message
TextBlockLists == { << >>, << <<"a">> >>, << <<"a">>, <<"b">> >>, << ConnectionOk >> }

\* textBlocks.join('\n\n')
RECURSIVE JoinBlocks(_)
JoinBlocks(bs) ==
    IF bs = << >> THEN << >>
    ELSE IF Len(bs) = 1 THEN Head(bs)
    ELSE Head(bs) \o <<"\n", "\n">> \o JoinBlocks(Tail(bs))

\* errors of the Anthropic SDK client
AnthropicErrors == { <<S401, MsgInvalidKey>>, <<S503, MsgOverloaded>> }

Response(c, th, p) == [content |-> c, thinking |-> th, provider |-> p]

NoResponse == Response(<< >>, << >>, "none")

\* AzureAIProvider.parseResponse
parseResponse(data) ==
    Response(IF data.shape = "full" THEN data.content ELSE << >>, << >>, "azure")

----------------------------------------------------------------------------
\* AIService and AzureAIProvider

cfgVars == <<isInitialized, activeProvider, anthropicClient, azureInitialized,
             switchRejected>>

reqVars == <<stream, primary, probe>>

flowVars == <<phase, target, attempt, waiting, primaryError, fallbackTo, calls,
              delays, outcome, raised, lastError, faults>>

dataVars == <<chunks, response, arrived, lastBody, sent, budget>>

NoCalls == [p \in Providers |-> 0]

\* primaryOnly503: every failed call of the try block failed with HTTP 503;
\* failoverFailed: some call of the failover failed
NoFaults == [primaryOnly503 |-> TRUE, failoverFailed |-> FALSE]

\* the faults after a call made in phase ph failed with e
Faulted(f, e, ph) ==
    IF ph = "primary"
    THEN [f EXCEPT !.primaryOnly503 = @ /\ e.kind = "http" /\ e.status = S503]
    ELSE [f EXCEPT !.failoverFailed = TRUE]

SvcInit ==
    /\ isInitialized = FALSE
    /\ activeProvider = "azure"
    /\ anthropicClient = FALSE
    /\ azureInitialized = FALSE
    /\ switchRejected = FALSE
    /\ phase = "idle"
    /\ target = "none"
    /\ stream = FALSE
    /\ probe = FALSE
    /\ attempt = 1
    /\ waiting = FALSE
    /\ primary = "none"
    /\ primaryError = NoError
    /\ fallbackTo = "none"
    /\ calls = NoCalls
    /\ delays = << >>
    /\ chunks = << >>
    /\ outcome = "none"
    /\ response = NoResponse
    /\ raised = NoError
    /\ arrived = << >>
    /\ lastBody = "none"
    /\ sent = << >>
    /\ budget = 0
    /\ lastError = NoError
    /\ faults = NoFaults

\* AIConfig: the primary provider, and which credentials the config carries
Configs == [provider : Providers, azure : BOOLEAN, anthropic : BOOLEAN]

\* AIService.initialize (with AzureAIProvider.initialize)
Initialize(cfg) ==
    /\ activeProvider' = cfg.provider
    /\ azureInitialized' = (azureInitialized \/ cfg.azure)
    /\ anthropicClient' = (anthropicClient \/ cfg.anthropic)
    /\ isInitialized' = TRUE
    /\ switchRejected' = FALSE
    /\ UNCHANGED <<reqVars, flowVars, dataVars, ctlVars, toolVars>>

\* the Anthropic client is not looked at
CanActivate_AzureOnly(p) == ~(p = "azure" /\ ~azureInitialized)

\* setActiveProvider: the provider is initialized
CanActivate(p) ==
    /\ ~(p = "azure" /\ ~azureInitialized)
    /\ ~(p = "anthropic" /\ ~anthropicClient)

\* AIService.setActiveProvider; it throws, changing nothing, when the
\* provider is not initialized
SetActiveProvider(p) ==
    /\ activeProvider' = IF CanActivate(p) THEN p ELSE activeProvider
    /\ switchRejected' = ~CanActivate(p)
    /\ UNCHANGED <<isInitialized, anthropicClient, azureInitialized,
                   reqVars, flowVars, dataVars, ctlVars, toolVars>>

\* AIService.execute, catch block: the provider to fail over to
FallbackTarget ==
    IF activeProvider = "azure" /\ anthropicClient THEN "anthropic"
    ELSE IF activeProvider = "anthropic" /\ azureInitialized THEN "azure"
    ELSE "none"

\* the failover's error takes the place of the original one
ErrorToThrow_Fallback(error, fallbackError) == fallbackError

\* AIService.execute, throw error: the error the request is rejected with
\* after the failover call failed with fallbackError
ErrorToThrow(error, fallbackError) == error

\* AIService.execute from the catch on: the call made in phase ph (with cs
\* the calls and fs the faults counted so far) was rejected with e
Caught(e, ph, cs, fs) ==
    /\ faults' = Faulted(fs, e, ph)
    /\ lastError' = NoError
    /\ waiting' = FALSE
    /\ attempt' = 1
    /\ IF ph = "primary"
       THEN /\ primaryError' = e
            /\ fallbackTo' = FallbackTarget
            /\ IF FallbackTarget # "none"
               THEN /\ phase' = "failover"
                    /\ target' = FallbackTarget
                    /\ calls' = [cs EXCEPT ![FallbackTarget] = @ + 1]
                    /\ outcome' = "none"
                    /\ raised' = NoError
               ELSE /\ phase' = "done"
                    /\ target' = "none"
                    /\ calls' = cs
                    /\ outcome' = "error"
                    /\ raised' = e
       ELSE /\ UNCHANGED <<primaryError, fallbackTo>>
            /\ phase' = "done"
            /\ target' = "none"
            /\ calls' = cs
            /\ outcome' = "error"
            /\ raised' = ErrorToThrow(primaryError, e)

\* AzureAIProvider.execute: is the call wrapped in executeWithRetry?
Retried(st) == st

\* one Azure attempt was rejected with e: executeWithRetry's catch when the
\* call is wrapped, the caller's catch otherwise
AzureFailed(e) ==
    IF Retried(stream) /\ shouldRetry(e, attempt)
    THEN /\ waiting' = TRUE
         /\ delays' = Append(delays, RetryDelay(attempt))
         /\ lastError' = e
         /\ faults' = Faulted(faults, e, phase)
         /\ UNCHANGED <<phase, target, attempt, primaryError, fallbackTo, calls,
                        outcome, raised>>
    ELSE Caught(e, phase, calls, faults) /\ UNCHANGED delays

\* executeWithRetry: the delay is over, operation() is called again
BackoffElapsed ==
    /\ phase \in {"primary", "failover"}
    /\ waiting
    /\ waiting' = FALSE
    /\ attempt' = attempt + 1
    /\ calls' = [calls EXCEPT ![target] = @ + 1]
    /\ lastError' = NoError
    /\ UNCHANGED <<phase, target, primaryError, fallbackTo, delays, outcome, raised, faults>>
    /\ UNCHANGED <<cfgVars, reqVars, dataVars, ctlVars, toolVars>>

\* execute resolves with resp
Returned(resp) ==
    /\ phase' = "done"
    /\ target' = "none"
    /\ outcome' = "ok"
    /\ response' = resp
    /\ waiting' = FALSE
    /\ attempt' = 1
    /\ UNCHANGED <<primaryError, fallbackTo, calls, delays, raised, lastError, faults>>

\* is provider p ready to take a call (the guards at the top of
\* AzureAIProvider.execute and AIService.executeWithAnthropic)
Ready(p) == IF p = "azure" THEN azureInitialized ELSE anthropicClient

NotReadyError(p) ==
    MkError("config", << >>,
            IF p = "azure" THEN MsgAzureNotInitialized ELSE MsgAnthropicNotInitialized,
            p, "primary")

\* the provider that answered the last request is tried first
PrimaryProvider_LastAnswering ==
    IF response.provider \in Providers THEN response.provider ELSE activeProvider

\* AIService.execute, try block: the provider tried first
PrimaryProvider == activeProvider

\* AIService.execute up to the first await
Call(st) ==
    /\ phase \in {"idle", "done"}
    /\ stream' = st
    /\ chunks' = << >>
    /\ arrived' = << >>
    /\ response' = NoResponse
    /\ lastBody' = "none"
    /\ sent' = << >>
    /\ budget' = MaxFrames
    /\ IF ~isInitialized
       THEN /\ primary' = "none"
            /\ phase' = "done"
            /\ target' = "none"
            /\ outcome' = "error"
            /\ raised' = MkError("config", << >>, MsgServiceNotInitialized, "none", "none")
            /\ primaryError' = NoError
            /\ fallbackTo' = "none"
            /\ calls' = NoCalls
            /\ delays' = << >>
            /\ lastError' = NoError
            /\ faults' = NoFaults
            /\ attempt' = 1
            /\ waiting' = FALSE
       ELSE /\ primary' = PrimaryProvider
            /\ IF Ready(PrimaryProvider)
               THEN /\ phase' = "primary"
                    /\ target' = PrimaryProvider
                    /\ attempt' = 1
                    /\ waiting' = FALSE
                    /\ calls' = [NoCalls EXCEPT ![PrimaryProvider] = 1]
                    /\ outcome' = "none"
                    /\ raised' = NoError
                    /\ primaryError' = NoError
                    /\ fallbackTo' = "none"
                    /\ delays' = << >>
                    /\ lastError' = NoError
                    /\ faults' = NoFaults
               ELSE /\ Caught(NotReadyError(PrimaryProvider), "primary", NoCalls, NoFaults)
                    /\ delays' = << >>
    /\ switchRejected' = FALSE
    /\ UNCHANGED <<isInitialized, activeProvider, anthropicClient, azureInitialized,
                   ctlVars, toolVars>>

\* execute called by a client: the caller passes onChunk whenever it asks
\* for a stream
Execute(st) ==
    /\ Call(st)
    /\ probe' = FALSE

\* AIService.testConnection up to the await of execute: an uninitialized
\* service answers false at once
TestConnection ==
    /\ isInitialized
    /\ Call(FALSE)
    /\ probe' = TRUE

\* testConnection, after the await: isOk, false when execute rejected
testConnectionResult ==
    /\ outcome = "ok"
    /\ Includes(response.content, ConnectionOk)

InFlight(p) == phase \in {"primary", "failover"} /\ target = p /\ ~waiting

\* fetch() rejects
AzureFetchRejects ==
    /\ InFlight("azure")
    /\ AzureFailed(MkError("reset", << >>, MsgFetchFailed, "azure", phase))
    /\ UNCHANGED <<cfgVars, reqVars, dataVars, ctlVars, toolVars>>

\* executeNonStreaming / executeStreaming: !response.ok
AzureHttpError(r) ==
    /\ InFlight("azure")
    /\ AzureFailed(MkError("http", r[1], AzureErrorMessage(r[1], r[2]), "azure", phase))
    /\ UNCHANGED <<cfgVars, reqVars, dataVars, ctlVars, toolVars>>

\* executeNonStreaming on a 2xx answer
AzureNonStreaming(body) ==
    /\ InFlight("azure")
    /\ ~stream
    /\ IF ~body.json
       THEN /\ AzureFailed(MkError("malformed", << >>, MsgUnexpectedToken, "azure", phase))
            /\ UNCHANGED dataVars
       ELSE /\ Returned(parseResponse(body))
            /\ lastBody' = IF body.shape = "full" THEN "wellformed" ELSE "malformed"
            /\ sent' = body.content
            /\ UNCHANGED <<chunks, arrived, budget>>
    /\ UNCHANGED <<cfgVars, reqVars, ctlVars, toolVars>>

\* executeStreaming on a 2xx answer without a body
AzureNoBody ==
    /\ InFlight("azure")
    /\ stream
    /\ AzureFailed(MkError("malformed", << >>, MsgNoResponseBody, "azure", phase))
    /\ UNCHANGED <<cfgVars, reqVars, dataVars, ctlVars, toolVars>>

\* the chunk executeStreaming hands to onChunk after the read loop
CompletionSignal == <<CompleteChunk>>

\* executeStreaming on a 2xx answer: the frames fs arrive, then the stream
\* ends (ok) or reader.read() rejects
AzureStreaming(fs, ok) ==
    /\ InFlight("azure")
    /\ stream
    /\ Len(fs) <= budget
    /\ budget' = budget - Len(fs)
    /\ arrived' = arrived \o FragmentsOf(fs)
    /\ LET acc == ProcessReads(EmptyAcc, Transport(fs))
       IN  IF ok
           THEN /\ chunks' = chunks \o acc.chunks \o CompletionSignal
                /\ Returned(Response(acc.fullContent, acc.fullThinking, "azure"))
                /\ lastBody' = IF Parseable(fs) THEN "wellformed" ELSE "malformed"
                /\ sent' = ContentOf(FragmentsOf(fs))
           ELSE /\ chunks' = chunks \o acc.chunks
                /\ AzureFailed(MkError("reset", << >>, MsgNetworkError, "azure", phase))
                /\ UNCHANGED <<response, lastBody, sent>>
    /\ UNCHANGED <<cfgVars, reqVars, ctlVars, toolVars>>

\* new Anthropic({ ..., maxRetries: 2 })
ANTHROPIC_MAX_RETRIES == 2

\* the SDK client repeats a request that failed with a connection error or
\* with HTTP 408, 409, 429 or 5xx, up to maxRetries times
SdkRetries(e, n) ==
    /\ n <= ANTHROPIC_MAX_RETRIES
    /\ \/ e.kind \in {"timeout", "reset"}
       \/ e.kind = "http" /\ e.status \in {S429, S502, S503}

\* the request of anthropicClient.messages.create / messages.stream fails:
\* the client repeats it, or the call rejects
AnthropicError(r) ==
    /\ InFlight("anthropic")
    /\ LET e == MkError("http", r[1], r[2], "anthropic", phase)
       IN  IF SdkRetries(e, attempt)
           THEN /\ attempt' = attempt + 1
                /\ calls' = [calls EXCEPT !["anthropic"] = @ + 1]
                /\ faults' = Faulted(faults, e, phase)
                /\ UNCHANGED <<phase, target, waiting, primaryError, fallbackTo,
                               outcome, raised, lastError>>
           ELSE Caught(e, phase, calls, faults)
    /\ UNCHANGED delays
    /\ UNCHANGED <<cfgVars, reqVars, dataVars, ctlVars, toolVars>>

\* AIService.parseAnthropicResponse
parseAnthropicResponse(blocks) == Response(JoinBlocks(blocks), << >>, "anthropic")

\* executeAnthropicNonStreaming
AnthropicNonStreaming(blocks) ==
    /\ InFlight("anthropic")
    /\ ~stream
    /\ Returned(parseAnthropicResponse(blocks))
    /\ lastBody' = "wellformed"
    /\ sent' = JoinBlocks(blocks)
    /\ UNCHANGED <<chunks, arrived, budget>>
    /\ UNCHANGED <<cfgVars, reqVars, ctlVars, toolVars>>

\* executeAnthropicStreaming: the events evs arrive, then the stream ends
\* (ok) or the iteration / finalMessage() rejects
AnthropicStreaming(evs, ok) ==
    /\ InFlight("anthropic")
    /\ stream
    /\ Len(evs) <= budget
    /\ budget' = budget - Len(evs)
    /\ arrived' = arrived \o EventFragments(evs)
    /\ LET acc == ProcessEvents(EmptyAcc, evs)
       IN  IF ok
           THEN /\ chunks' = chunks \o acc.chunks \o <<CompleteChunk>>
                /\ Returned(Response(acc.fullContent, acc.fullThinking, "anthropic"))
                /\ lastBody' = "wellformed"
                /\ sent' = ContentOf(EventFragments(evs))
           ELSE /\ chunks' = chunks \o acc.chunks
                /\ Caught(MkError("reset", << >>, MsgNetworkError, "anthropic", phase),
                          phase, calls, faults)
                /\ UNCHANGED <<delays, response, lastBody, sent>>
    /\ UNCHANGED <<cfgVars, reqVars, ctlVars, toolVars>>

CtlIdle ==
    /\ status = "idle"
    /\ cpc = "idle"
    /\ stages = << >>
    /\ previousStages = << >>
    /\ windows = << >>
    /\ pauseRequested = FALSE
    /\ pausedDuring = 0
    /\ stopRequested = FALSE
    /\ stoppedDuring = 0
    /\ promptsBuilt = 0
    /\ synthesisCount = 0
    /\ insights = << >>
    /\ richInsights = << >>
    /\ onError = << >>
    /\ logged = 0

\* no model id and no completion text at hand
ToolsIdle ==
    /\ model = "none"
    /\ hops = << >>
    /\ written = << >>
    /\ content = << >>
    /\ extractions = << >>

Init ==
    /\ SvcInit
    /\ CtlIdle
    /\ ToolsIdle
    /\ config = [maxDepth |-> 0, synthesisInterval |-> 3,
                 enableMiniSynthesis |-> TRUE, continueOnFailure |-> FALSE]

Next ==
    \/ \E cfg \in Configs : Initialize(cfg)
    \/ \E p \in Providers : SetActiveProvider(p)
    \/ \E st \in BOOLEAN : Execute(st)
    \/ TestConnection
    \/ BackoffElapsed
    \/ AzureFetchRejects
    \/ \E r \in AzureErrorResponses : AzureHttpError(r)
    \/ \E body \in AzureBodies : AzureNonStreaming(body)
    \/ AzureNoBody
    \/ \E fs \in SeqsUpTo(Frames, MaxFrames), ok \in BOOLEAN : AzureStreaming(fs, ok)
    \/ \E r \in AnthropicErrors : AnthropicError(r)
    \/ \E blocks \in TextBlockLists : AnthropicNonStreaming(blocks)
    \/ \E evs \in SeqsUpTo(Events, MaxFrames), ok \in BOOLEAN : AnthropicStreaming(evs, ok)

Spec == Init /\ [][Next]_vars

----------------------------------------------------------------------------
\* Claims about the retry/failover wrapper and the provider abstraction

Contacted == { p \in Providers : calls[p] > 0 }

\* C1: on every execute request on which the primary provider failed and a
\* secondary provider is configured, the secondary provider is called
\* exactly once (it is not itself retried, streaming or not), and at most
\* two provider identities are contacted.
C1_SecondaryCalledOnce ==
    (primary \in Providers /\ fallbackTo = Other(primary))
        => /\ calls[fallbackTo] = 1
           /\ Cardinality(Contacted) <= 2

\* C2: a provider call that fails with a transient error is retried until
\* it succeeds or MAX_RETRIES attempts have been made, and only then is the
\* error surfaced to execute, streaming or not, whichever provider is active.
C2_TransientRetriedToCeiling ==
    (primaryError # NoError /\ Transient(primaryError))
        => calls[primaryError.from] >= MAX_RETRIES

\* C3: with a primary provider whose every call fails with 503 and a
\* configured fallback provider whose call succeeds, execute returns the
\* fallback's result after exactly 3 attempts against the primary and
\* exactly 1 attempt against the fallback.
C3_ThreeAttemptsThenFallback ==
    (/\ phase = "done"
     /\ outcome = "ok"
     /\ primaryError # NoError
     /\ faults.primaryOnly503
     /\ ~faults.failoverFailed
     /\ fallbackTo = Other(primary))
        => /\ response.provider = fallbackTo
           /\ calls[primary] = MAX_RETRIES
           /\ calls[fallbackTo] = 1

\* C4: when the primary's call fails and the failover call fails too,
\* execute raises the error of the primary, never the fallback's; when no
\* secondary provider is configured the primary's error is raised after
\* contacting only the primary.
C4_OriginalErrorRaised ==
    (phase = "done" /\ outcome = "error" /\ primary \in Providers)
        => /\ raised = primaryError
           /\ raised.phase = "primary"
           /\ raised.from = primary
           /\ fallbackTo = "none" => Contacted \subseteq {primary}

\* C4 witness: both the primary and the failover call failed
C4_BothFailed ==
    /\ phase = "done"
    /\ outcome = "error"
    /\ fallbackTo = Other(primary)
    /\ faults.failoverFailed
    /\ calls[primary] > 0

\* C5: a non-transient provider failure is never retried; only transient
\* errors (timeout, connection reset, HTTP 429/502/503) are classified as
\* retryable.
C5_OnlyTransientRetried ==
    waiting => Transient(lastError)

\* C6: execute returns a response only from a well-formed answer, and its
\* content is the completion the provider sent: a body without
\* choices/message content or an unparseable stream frame never yields a
\* successful response with empty or truncated content.
C6_NoSilentEmptyContent ==
    (phase = "done" /\ outcome = "ok")
        => /\ lastBody = "wellformed"
           /\ response.content = sent

Incomplete(cs) == SelectSeq(cs, LAMBDA c : ~c.isComplete)

Completions(cs) == SelectSeq(cs, LAMBDA c : c.isComplete)

\* C7: in streaming mode onChunk gets every text/reasoning fragment once,
\* in arrival order, with isComplete = FALSE; a successful call ends with
\* exactly one isComplete = TRUE chunk, delivered last; a failed call
\* delivers no isComplete = TRUE chunk; without streaming onChunk is never
\* invoked.
C7_ChunkProtocol ==
    /\ ~stream => chunks = << >>
    /\ Incomplete(chunks) = arrived
    /\ (phase = "done" /\ outcome = "ok" /\ stream)
           => /\ Len(Completions(chunks)) = 1
              /\ chunks[Len(chunks)].isComplete
    /\ outcome # "ok" => Completions(chunks) = << >>

----------------------------------------------------------------------------
\* Exploration controller. ExplorationEngine.ts is not among the sources;
\* the loop is modelled from the specification (sections 3, 4.4 - 4.6, 5),
\* the synthesis trigger and createMiniSynthesis from the integration guide.

\* ExplorationConfig; maxDepth 0 stands for Infinity
JourneyConfigs ==
    [maxDepth : {0, 3}, synthesisInterval : {2, 3},
     enableMiniSynthesis : BOOLEAN, continueOnFailure : BOOLEAN]

InitJourney ==
    /\ SvcInit
    /\ CtlIdle
    /\ ToolsIdle
    /\ config \in JourneyConfigs

Terminal == {"complete", "stopped", "failed"}

Finished == {"complete", "failed"}

\* a failed stage gives its number back
NextSequenceNumber_SkipFailed ==
    Cardinality({ i \in 1..Len(stages) : stages[i].status # "failed" }) + 1

\* the sequence number given to the next stage
NextSequenceNumber == Len(stages) + 1

LastStage == stages[Len(stages)]

\* the Stage Executor's record of a stage whose provider call returned
Completion(stage) ==
    [stage EXCEPT !.status = "complete", !.rawOutput = "output",
                  !.thinking = "trace", !.artifacts = << "artifact" >>]

\* the Stage Executor takes up the next stage: the prompt is built from the
\* context and the provider call is issued
BeginStage(summary) ==
    /\ promptsBuilt' = promptsBuilt + 1
    /\ stages' = Append(stages, [seq |-> NextSequenceNumber, status |-> "running",
                                 isSummary |-> summary, rawOutput |-> "",
                                 thinking |-> "", artifacts |-> << >>])
    /\ cpc' = "stage"

\* start(journey)
Start ==
    /\ status = "idle"
    /\ status' = "running"
    /\ BeginStage(FALSE)
    /\ UNCHANGED <<pauseRequested, pausedDuring, stopRequested, stoppedDuring, synthesisCount,
                   insights, richInsights, config, onError, logged>>
    /\ UNCHANGED <<previousStages, windows>>
    /\ UNCHANGED <<svcVars, toolVars>>

\* a summary stage triggers the synthesis like any other
SynthesisDue_AlsoSummary(stage, count) ==
    /\ config.enableMiniSynthesis
    /\ stage.status = "complete"
    /\ count % config.synthesisInterval = 0
    /\ count >= config.synthesisInterval

\* the first window needs more stages than the interval
SynthesisDue_StrictMinimum(stage, count) ==
    /\ config.enableMiniSynthesis
    /\ ~stage.isSummary
    /\ stage.status = "complete"
    /\ count % config.synthesisInterval = 0
    /\ count > config.synthesisInterval

\* executeStage: the condition under which createMiniSynthesis is awaited
SynthesisDue(stage, count) ==
    /\ config.enableMiniSynthesis
    /\ ~stage.isSummary
    /\ stage.status = "complete"
    /\ count % config.synthesisInterval = 0
    /\ count >= config.synthesisInterval

\* Array.prototype.slice(-n), n > 0
SliceLast(s, n) == IF Len(s) <= n THEN s ELSE SubSeq(s, Len(s) - n + 1, Len(s))

\* the synthesis takes in every stage of the context
lastStages_WholeContext(context) == context

\* createMiniSynthesis: lastStages
lastStages(context) == SliceLast(context, config.synthesisInterval)

\* the trigger is evaluated before the stage is added to the context
StageSucceeds_TriggerBeforePush ==
    /\ cpc = "stage"
    /\ LET done == Completion(LastStage)
           context == Append(previousStages, done.seq)
           due == /\ previousStages # << >>
                  /\ SynthesisDue(done, Len(previousStages))
                  /\ Len(lastStages(context)) >= config.synthesisInterval
       IN  /\ stages' = [stages EXCEPT ![Len(stages)] = done]
           /\ previousStages' = context
           /\ cpc' = IF due THEN "synthesis" ELSE "boundary"
           /\ windows' = IF due THEN Append(windows, lastStages(context))
                         ELSE windows
    /\ richInsights' = Append(richInsights, [category |-> "Stage"])
    /\ insights' = Append(insights, "stage")
    /\ UNCHANGED <<status, pauseRequested, pausedDuring, stopRequested, stoppedDuring,
                   promptsBuilt, synthesisCount, config, onError, logged>>
    /\ UNCHANGED <<svcVars, toolVars>>

\* the provider call of the stage in flight returns: the stage is marked
\* complete, persisted and added to the context, with the insight extracted
\* from its output; createMiniSynthesis is entered when the trigger holds,
\* and goes on to the service call unless lastStages is too short
StageSucceeds ==
    /\ cpc = "stage"
    /\ LET done == Completion(LastStage)
           context == Append(previousStages, done.seq)
           due == /\ SynthesisDue(done, Len(context))
                  /\ Len(lastStages(context)) >= config.synthesisInterval
       IN  /\ stages' = [stages EXCEPT ![Len(stages)] = done]
           /\ previousStages' = context
           /\ cpc' = IF due THEN "synthesis" ELSE "boundary"
           /\ windows' = IF due THEN Append(windows, lastStages(context))
                         ELSE windows
    /\ richInsights' = Append(richInsights, [category |-> "Stage"])
    /\ insights' = Append(insights, "stage")
    /\ UNCHANGED <<status, pauseRequested, pausedDuring, stopRequested, stoppedDuring,
                   promptsBuilt, synthesisCount, config, onError, logged>>
    /\ UNCHANGED <<svcVars, toolVars>>

\* the provider call of the stage in flight fails after retries and failover
StageFails ==
    /\ cpc = "stage"
    /\ stages' = [stages EXCEPT ![Len(stages)].status = "failed"]
    /\ onError' = Append(onError, [stage |-> Len(stages),
                                   isFatal |-> ~config.continueOnFailure])
    /\ cpc' = "boundary"
    /\ UNCHANGED <<status, pauseRequested, pausedDuring, stopRequested, stoppedDuring,
                   promptsBuilt, synthesisCount, insights, richInsights, config, logged>>
    /\ UNCHANGED <<previousStages, windows>>
    /\ UNCHANGED <<svcVars, toolVars>>

\* the stages of the window are emptied once they are summarised
SynthesisSucceeds_CompactsStages ==
    /\ cpc = "synthesis"
    /\ stages' = [i \in 1..Len(stages) |->
                    IF i \in Range(windows[Len(windows)])
                    THEN [stages[i] EXCEPT !.rawOutput = "", !.thinking = ""]
                    ELSE stages[i]]
    /\ richInsights' = Append(richInsights, [category |-> "Synthesis"])
    /\ insights' = Append(insights, "[SYNTHESIS]")
    /\ synthesisCount' = synthesisCount + 1
    /\ cpc' = "boundary"
    /\ UNCHANGED <<status, pauseRequested, pausedDuring, stopRequested, stoppedDuring,
                   promptsBuilt, config, onError, logged>>
    /\ UNCHANGED <<previousStages, windows>>
    /\ UNCHANGED <<svcVars, toolVars>>

\* the counter is set instead of incremented
SynthesisSucceeds_CounterRestarts ==
    /\ cpc = "synthesis"
    /\ richInsights' = Append(richInsights, [category |-> "Synthesis"])
    /\ insights' = Append(insights, "[SYNTHESIS]")
    /\ synthesisCount' = 1
    /\ cpc' = "boundary"
    /\ UNCHANGED <<status, stages, pauseRequested, pausedDuring, stopRequested, stoppedDuring,
                   promptsBuilt, config, onError, logged>>
    /\ UNCHANGED <<previousStages, windows>>
    /\ UNCHANGED <<svcVars, toolVars>>

\* createMiniSynthesis, the try block runs through
SynthesisSucceeds ==
    /\ cpc = "synthesis"
    /\ richInsights' = Append(richInsights, [category |-> "Synthesis"])
    /\ insights' = Append(insights, "[SYNTHESIS]")
    /\ synthesisCount' = synthesisCount + 1
    /\ cpc' = "boundary"
    /\ UNCHANGED <<status, stages, pauseRequested, pausedDuring, stopRequested, stoppedDuring,
                   promptsBuilt, config, onError, logged>>
    /\ UNCHANGED <<previousStages, windows>>
    /\ UNCHANGED <<svcVars, toolVars>>

\* the report's fields are logged after the insight was stored, and logging
\* them throws
SynthesisFails_AfterPush ==
    /\ cpc = "synthesis"
    /\ richInsights' = Append(richInsights, [category |-> "Synthesis"])
    /\ insights' = Append(insights, "[SYNTHESIS]")
    /\ synthesisCount' = synthesisCount + 1
    /\ logged' = logged + 1
    /\ cpc' = "boundary"
    /\ UNCHANGED <<status, stages, pauseRequested, pausedDuring, stopRequested, stoppedDuring,
                   promptsBuilt, config, onError>>
    /\ UNCHANGED <<previousStages, windows>>
    /\ UNCHANGED <<svcVars, toolVars>>

\* createMiniSynthesis, the catch block: the service call rejected, which is
\* logged and not rethrown
SynthesisFails ==
    /\ cpc = "synthesis"
    /\ logged' = logged + 1
    /\ cpc' = "boundary"
    /\ UNCHANGED <<status, stages, pauseRequested, pausedDuring, stopRequested, stoppedDuring,
                   promptsBuilt, synthesisCount, insights, richInsights, config, onError>>
    /\ UNCHANGED <<previousStages, windows>>
    /\ UNCHANGED <<svcVars, toolVars>>

\* the limit is noticed one stage late
DepthReached_OneLate == config.maxDepth # 0 /\ Len(stages) > config.maxDepth

\* the depth limit of the Journey is reached
DepthReached == config.maxDepth # 0 /\ Len(stages) >= config.maxDepth

\* a failed stage does not end the Journey
BoundaryStatus_FailureIgnored ==
    IF DepthReached THEN "complete"
    ELSE IF stopRequested THEN "stopped"
    ELSE IF pauseRequested THEN "paused"
    ELSE "running"

\* the status the loop moves to at a stage boundary, "running" to go on
BoundaryStatus ==
    IF stages # << >> /\ LastStage.status = "failed" /\ ~config.continueOnFailure
    THEN "failed"
    ELSE IF DepthReached THEN "complete"
    ELSE IF stopRequested THEN "stopped"
    ELSE IF pauseRequested THEN "paused"
    ELSE "running"

\* the loop goes on without awaiting the stage in flight
Boundary_NotAwaited ==
    /\ cpc \in {"boundary", "stage"}
    /\ status = "running"
    /\ IF BoundaryStatus = "running"
       THEN /\ Len(stages) < MaxStages
            /\ \E summary \in BOOLEAN : BeginStage(summary)
            /\ UNCHANGED <<status, pauseRequested, pausedDuring>>
       ELSE /\ status' = BoundaryStatus
            /\ cpc' = "halted"
            /\ pauseRequested' = FALSE
            /\ pausedDuring' = IF BoundaryStatus = "paused" THEN pausedDuring ELSE 0
            /\ UNCHANGED <<stages, promptsBuilt>>
    /\ UNCHANGED <<stopRequested, stoppedDuring, synthesisCount, insights, richInsights,
                   config, onError, logged>>
    /\ UNCHANGED <<previousStages, windows>>
    /\ UNCHANGED <<svcVars, toolVars>>

\* the stage boundary: the termination conditions are checked, then the loop
\* halts or takes up the next stage
Boundary ==
    /\ cpc = "boundary"
    /\ status = "running"
    /\ IF BoundaryStatus = "running"
       THEN /\ Len(stages) < MaxStages
            /\ \E summary \in BOOLEAN : BeginStage(summary)
            /\ UNCHANGED <<status, pauseRequested, pausedDuring>>
       ELSE /\ status' = BoundaryStatus
            /\ cpc' = "halted"
            /\ pauseRequested' = FALSE
            /\ pausedDuring' = IF BoundaryStatus = "paused" THEN pausedDuring ELSE 0
            /\ UNCHANGED <<stages, promptsBuilt>>
    /\ UNCHANGED <<stopRequested, stoppedDuring, synthesisCount, insights, richInsights, config, onError, logged>>
    /\ UNCHANGED <<previousStages, windows>>
    /\ UNCHANGED <<svcVars, toolVars>>

\* pause() halts the Journey at once, with the stage still in flight
Pause_Immediate ==
    /\ status = "running"
    /\ status' = "paused"
    /\ pausedDuring' = IF cpc = "stage" THEN Len(stages) ELSE 0
    /\ UNCHANGED <<cpc, stages, pauseRequested, stopRequested, stoppedDuring, promptsBuilt,
                   synthesisCount, insights, richInsights, config, onError, logged>>
    /\ UNCHANGED <<previousStages, windows>>
    /\ UNCHANGED <<svcVars, toolVars>>

\* pause(): noted, honoured at the next stage boundary
Pause ==
    /\ status = "running"
    /\ ~pauseRequested
    /\ pauseRequested' = TRUE
    /\ pausedDuring' = IF cpc = "stage" THEN Len(stages) ELSE 0
    /\ UNCHANGED <<status, cpc, stages, stopRequested, stoppedDuring, promptsBuilt, synthesisCount,
                   insights, richInsights, config, onError, logged>>
    /\ UNCHANGED <<previousStages, windows>>
    /\ UNCHANGED <<svcVars, toolVars>>

\* resume() also restarts a stopped Journey
ResumedStatus_AfterStop(st) == IF st \in {"paused", "stopped"} THEN "running" ELSE st

\* the status resume() moves a Journey of status st to
ResumedStatus(st) == IF st = "paused" THEN "running" ELSE st

\* resume(): a paused Journey runs again, from the stage boundary
Resume ==
    /\ status # "idle"
    /\ status' = ResumedStatus(status)
    /\ cpc' = IF status' # status THEN "boundary" ELSE cpc
    /\ pausedDuring' = IF status' # status THEN 0 ELSE pausedDuring
    /\ UNCHANGED <<stages, pauseRequested, stopRequested, stoppedDuring, promptsBuilt,
                   synthesisCount, insights, richInsights, config, onError, logged>>
    /\ UNCHANGED <<previousStages, windows>>
    /\ UNCHANGED <<svcVars, toolVars>>

\* stop() halts the Journey at once, with the stage still in flight
Stop_Immediate ==
    /\ status # "idle"
    /\ status' = IF status \in {"running", "paused"} THEN "stopped" ELSE status
    /\ stopRequested' = (stopRequested \/ status = "running")
    /\ stoppedDuring' = IF status = "running" /\ cpc = "stage"
                        THEN Len(stages) ELSE stoppedDuring
    /\ pausedDuring' = 0
    /\ UNCHANGED <<cpc, stages, pauseRequested, promptsBuilt, synthesisCount,
                   insights, richInsights, config, onError, logged>>
    /\ UNCHANGED <<previousStages, windows>>
    /\ UNCHANGED <<svcVars, toolVars>>

\* stop(): a paused Journey is stopped at once, a running one at the next
\* stage boundary
Stop ==
    /\ status # "idle"
    /\ status' = IF status = "paused" THEN "stopped" ELSE status
    /\ stopRequested' = (stopRequested \/ status = "running")
    /\ stoppedDuring' = IF status = "running" /\ ~stopRequested /\ cpc = "stage"
                        THEN Len(stages) ELSE stoppedDuring
    /\ pausedDuring' = IF status = "paused" THEN 0 ELSE pausedDuring
    /\ UNCHANGED <<cpc, stages, pauseRequested, promptsBuilt, synthesisCount,
                   insights, richInsights, config, onError, logged>>
    /\ UNCHANGED <<previousStages, windows>>
    /\ UNCHANGED <<svcVars, toolVars>>

NextJourney ==
    \/ Start
    \/ StageSucceeds
    \/ StageFails
    \/ SynthesisSucceeds
    \/ SynthesisFails
    \/ Boundary
    \/ Pause
    \/ Resume
    \/ Stop

SpecJourney == InitJourney /\ [][NextJourney]_vars

----------------------------------------------------------------------------
\* Claims about the exploration controller

AllowedTransitions ==
    { <<"idle", "running">>,
      <<"running", "paused">>, <<"running", "stopped">>,
      <<"running", "complete">>, <<"running", "failed">>,
      <<"paused", "running">>, <<"paused", "stopped">> }

\* C8: the Journey status only moves running -> paused | stopped | complete
\* | failed, paused -> running and paused -> stopped (after start() has
\* taken it from idle to running); once complete, stopped or failed, no
\* start/pause/resume/stop call or stage completion changes it.
C8_StatusTransitions ==
    [][status' # status => <<status, status'>> \in AllowedTransitions]_vars

\* C8 witness: a paused Journey was stopped by stop()
C8_StoppedWhilePaused ==
    /\ status = "stopped"
    /\ ~stopRequested
    /\ stages # << >>

\* C9: in every reachable state the stage sequence numbers are exactly
\* 1..n, without gaps or duplicates, also when stages failed.
C9_ContiguousSequenceNumbers ==
    \A i \in 1..Len(stages) : stages[i].seq = i

\* C9 witness: a stage follows a failed stage
C9_StageAfterFailedStage ==
    \E i \in 1..Len(stages) : i < Len(stages) /\ stages[i].status = "failed"

\* C10: pause() issued while a stage is executing takes effect only at the
\* next stage boundary: the stage in flight finishes first, the status
\* becomes paused only afterwards, and no prompt is built and no stage
\* starts until resume().
C10_PauseAtStageBoundary ==
    /\ [](status = "paused" =>
            /\ cpc = "halted"
            /\ \A i \in 1..Len(stages) : stages[i].status \in Finished
            /\ pausedDuring > 0 =>
                   (Len(stages) = pausedDuring /\ promptsBuilt = pausedDuring))
    /\ [][(pauseRequested \/ status = "paused") =>
            (promptsBuilt' = promptsBuilt /\ Len(stages') = Len(stages))]_vars

\* C10 witness: pause() came during stage 2, which completed before the
\* Journey paused
C10_PausedAfterStageTwo ==
    /\ status = "paused"
    /\ pausedDuring = 2
    /\ stages[2].status = "complete"

\* C11: stop() is cooperative and terminal: a stage in flight finishes before
\* the Journey becomes stopped, and once stop() has been requested no
\* resume() nor any other call starts another stage.
C11_StopCooperativeTerminal ==
    /\ [](status = "stopped" =>
            /\ cpc = "halted"
            /\ \A i \in 1..Len(stages) : stages[i].status \in Finished
            /\ stoppedDuring > 0 => Len(stages) = stoppedDuring)
    /\ [][cpc = "stage" => status' # "stopped"]_vars
    /\ [][(stopRequested \/ status = "stopped") =>
            (promptsBuilt' = promptsBuilt /\ Len(stages') = Len(stages)
             /\ (status = "stopped" => status' = "stopped"))]_vars

\* C11 witness: stop() came during stage 2, which completed before the
\* Journey stopped
C11_StoppedAfterStageTwo ==
    /\ status = "stopped"
    /\ stoppedDuring = 2
    /\ stages[2].status = "complete"

\* C12: with a depth limit configured the number of stages never exceeds the
\* limit, and at the stage boundary where the stage count has reached the
\* limit the loop starts no further stage and the Journey becomes complete
\* (a last stage that failed without a continue-on-failure policy ends the
\* Journey as failed, the case of C13).
C12_DepthLimit ==
    /\ [](config.maxDepth # 0 => Len(stages) <= config.maxDepth)
    /\ [][(/\ config.maxDepth # 0
           /\ cpc = "boundary" /\ cpc' # "boundary"
           /\ Len(stages) = config.maxDepth) =>
            /\ Len(stages') = Len(stages)
            /\ promptsBuilt' = promptsBuilt
            /\ cpc' = "halted"
            /\ ~(LastStage.status = "failed" /\ ~config.continueOnFailure)
                  => status' = "complete"]_vars

\* C12 witness: a Journey limited to three stages completed after the third
C12_CompleteAtLimit ==
    /\ status = "complete"
    /\ config.maxDepth = 3
    /\ Len(stages) = 3

\* C13: a stage whose provider call failed is marked failed and reported
\* through onError; without a continue-on-failure policy the report is fatal
\* and the Journey becomes failed at the stage boundary, with the policy the
\* report is not fatal, the Journey does not fail and the loop takes up the
\* next stage (unless the depth limit, a stop or a pause halts it); no failed
\* stage is without its report.
C13_StageFailurePolicy ==
    /\ [](\A i \in 1..Len(stages) :
            stages[i].status = "failed" <=>
                \E k \in 1..Len(onError) :
                    /\ onError[k].stage = i
                    /\ onError[k].isFatal = ~config.continueOnFailure)
    /\ [](status = "failed" =>
            /\ stages # << >>
            /\ stages[Len(stages)].status = "failed"
            /\ ~config.continueOnFailure)
    /\ [][(/\ cpc = "boundary" /\ cpc' # "boundary"
           /\ stages[Len(stages)].status = "failed") =>
            IF ~config.continueOnFailure
            THEN status' = "failed" /\ Len(stages') = Len(stages)
            ELSE /\ status' # "failed"
                 /\ (/\ ~stopRequested /\ ~pauseRequested
                     /\ (config.maxDepth = 0 \/ Len(stages) < config.maxDepth))
                       => (/\ status' = "running"
                           /\ Len(stages') = Len(stages) + 1
                           /\ stages'[Len(stages')].status = "running")]_vars

\* C13 witness: the second stage failed, was reported as fatal and the
\* Journey failed
C13_JourneyFailedAtStageTwo ==
    /\ status = "failed"
    /\ Len(stages) = 2
    /\ onError = << [stage |-> 2, isFatal |-> TRUE] >>

\* C14: a synthesis is run after a stage exactly when synthesis is enabled,
\* the stage completed successfully, it is not a terminal summary stage and
\* the number of stages so far is a positive multiple of synthesisInterval;
\* otherwise none is run.
C14_SynthesisExactlyWhenDue ==
    [][(cpc = "stage" /\ cpc' # "stage") =>
        ((cpc' = "synthesis") <=>
            /\ config.enableMiniSynthesis
            /\ stages'[Len(stages')].status = "complete"
            /\ ~stages'[Len(stages')].isSummary
            /\ \E k \in 1..MaxStages :
                   Len(previousStages') = k * config.synthesisInterval)]_vars

\* C14 witness: with an interval of 2 the synthesis was run after stage 2
\* and is not run after stage 3
C14_SynthesisAfterStageTwoOnly ==
    /\ config.synthesisInterval = 2
    /\ synthesisCount = 1
    /\ Len(stages) = 3
    /\ stages[3].status = "complete"
    /\ ~stages[3].isSummary
    /\ cpc = "boundary"

OfCategory(l, c) == { i \in 1..Len(l) : l[i].category = c }

\* the list l2 is the list l1 with entries appended
Extends(l2, l1) == Len(l2) >= Len(l1) /\ SubSeq(l2, 1, Len(l1)) = l1

\* C16: each successful synthesis appends exactly one Insight of category
\* "Synthesis" and increments the synthesis counter by exactly one; the
\* counter never decreases and the insight lists only grow at the end.
C16_SynthesisAppendsOneInsight ==
    /\ [][/\ synthesisCount' >= synthesisCount
          /\ Extends(richInsights', richInsights)
          /\ Extends(insights', insights)
          /\ (cpc = "synthesis" /\ cpc' # "synthesis" /\ logged' = logged) =>
                /\ synthesisCount' = synthesisCount + 1
                /\ richInsights' = Append(richInsights, [category |-> "Synthesis"])
                /\ Len(insights') = Len(insights) + 1]_vars
    /\ [](Cardinality(OfCategory(richInsights, "Synthesis")) = synthesisCount)

\* C16 witness: two syntheses succeeded, with insights of stages in between
C16_TwoSynthesisInsights ==
    /\ synthesisCount = 2
    /\ Cardinality(OfCategory(richInsights, "Stage")) >= 2

\* the stages that have completed and whose synthesis, when one was due, has
\* been run
Completed ==
    { i \in 1..Len(stages) :
        stages[i].status = "complete" /\ (i = Len(stages) => cpc # "synthesis") }

\* C17: in a Journey with synthesis enabled whose stages (none of them a
\* summary stage) and syntheses all succeed, after n completed stages the
\* synthesis counter is floor(n / synthesisInterval): with an interval of 3
\* it is 1 after stage 3, still 1 after stages 4 and 5, and 2 after stage 6.
C17_CounterIsFloor ==
    (/\ config.enableMiniSynthesis
     /\ logged = 0
     /\ \A i \in 1..Len(stages) : stages[i].status # "failed" /\ ~stages[i].isSummary)
    => LET n == Cardinality(Completed)
       IN  /\ synthesisCount = n \div config.synthesisInterval
           /\ config.synthesisInterval = 3 =>
                 /\ n \in {3, 4, 5} => synthesisCount = 1
                 /\ n = 6 => synthesisCount = 2

\* C17 witness: six stages and two syntheses succeeded with an interval of 3
C17_SecondSynthesisAfterStageSix ==
    /\ config.enableMiniSynthesis
    /\ config.synthesisInterval = 3
    /\ logged = 0
    /\ \A i \in 1..Len(stages) : stages[i].status = "complete" /\ ~stages[i].isSummary
    /\ Len(stages) = 6
    /\ synthesisCount = 2

\* the stages of the Journey that are being executed
Running == { i \in 1..Len(stages) : stages[i].status = "running" }

\* C18: the stages of a Journey execute strictly one after the other: at
\* most one stage is running at any time, and a stage is started only when
\* every earlier stage is complete or failed.
C18_StagesSequential ==
    /\ [](/\ Cardinality(Running) <= 1
          /\ \A i \in 1..Len(stages) : i < Len(stages) => stages[i].status \in Finished
          /\ (Running # {}) <=> (cpc = "stage"))
    /\ [][Len(stages') > Len(stages) =>
            /\ Len(stages') = Len(stages) + 1
            /\ \A i \in 1..Len(stages) : stages[i].status \in Finished
            /\ stages'[Len(stages')].status = "running"]_vars

\* C18 witness: the third stage is running after the first two finished
C18_ThirdStageRunning ==
    /\ Len(stages) = 3
    /\ Running = {3}

\* the stages after which a synthesis is due
Windows ==
    { i \in 1..Len(stages) :
        /\ config.enableMiniSynthesis
        /\ stages[i].status = "complete"
        /\ ~stages[i].isSummary
        /\ Cardinality({ j \in 1..i : stages[j].status = "complete" })
             % config.synthesisInterval = 0 }

\* C19: the synthesis of a window of stages runs only when every stage of
\* the window has finished, and it has finished, successfully or not, before
\* the prompt of the next stage is built.
C19_SynthesisBetweenStages ==
    /\ [](cpc = "synthesis" =>
            /\ Len(stages) >= config.synthesisInterval
            /\ Len(stages) \in Windows
            /\ \A i \in 1..Len(stages) : stages[i].status \in Finished
            /\ promptsBuilt = Len(stages)
            /\ synthesisCount + logged = Cardinality(Windows) - 1)
    /\ [](cpc # "synthesis" => synthesisCount + logged = Cardinality(Windows))
    /\ [][cpc = "synthesis" =>
            (promptsBuilt' = promptsBuilt /\ Len(stages') = Len(stages))]_vars
    /\ [][promptsBuilt' # promptsBuilt =>
            (cpc # "synthesis" /\ synthesisCount + logged = Cardinality(Windows))]_vars

\* C19 witness: the prompt of stage 4 was built after the synthesis of
\* stages 1 to 3 had succeeded
C19_StageFourAfterSynthesis ==
    /\ config.synthesisInterval = 3
    /\ synthesisCount = 1
    /\ Len(stages) = 4
    /\ promptsBuilt = 4
    /\ cpc = "stage"

----------------------------------------------------------------------------
\* Claims about the configuration of the AI service

\* C20: a configuration error fails fast at initialization: initialize with a
\* missing credential or endpoint for the selected primary provider raises,
\* so the service is never initialized with a primary provider that is not
\* ready and no execute call is started on an unconfigured primary.
C20_FailFastAtInitialize ==
    /\ isInitialized => Ready(activeProvider)
    /\ ~(primary \in Providers /\ primaryError = NotReadyError(primary))

\* C23: a Stage is immutable once it is complete or failed: no later stage
\* execution, synthesis, pause, resume or stop changes its status, raw
\* output, reasoning trace or artifact list, and it stays in its place.
C23_FinishedStageImmutable ==
    [][\A i \in 1..Len(stages) :
          stages[i].status \in Finished =>
              /\ i <= Len(stages')
              /\ stages'[i].status = stages[i].status
              /\ stages'[i].rawOutput = stages[i].rawOutput
              /\ stages'[i].thinking = stages[i].thinking
              /\ stages'[i].artifacts = stages[i].artifacts]_vars

\* C23 witness: three stages finished, a synthesis ran in between and stop()
\* came during the third stage
C23_ThreeStagesAndSynthesis ==
    /\ Len(stages) = 3
    /\ \A i \in 1..3 : stages[i].status \in Finished
    /\ stages[1].rawOutput = "output"
    /\ synthesisCount = 1
    /\ stoppedDuring = 3
    /\ status = "stopped"

\* C22: Journeys running concurrently share no mutable state but the
\* persistence store: while the provider call of one Journey is in flight,
\* no initialization and no provider switch made elsewhere changes the
\* provider configuration that call works with.
C22_ProviderStateNotShared ==
    [][(phase \in {"primary", "failover"}) =>
         (/\ activeProvider' = activeProvider
          /\ anthropicClient' = anthropicClient
          /\ azureInitialized' = azureInitialized)]_vars

----------------------------------------------------------------------------
\* Translation of model ids between the providers

MaxHops == 3

\* AIModel
AIModel ==
    { "claude-3-5-sonnet-20241022", "claude-3-5-haiku-20241022",
      "claude-3-opus-20240229",
      "gpt-4o", "gpt-4o-mini", "o1-preview", "o1-mini",
      "claude-sonnet-4-5-20250929", "claude-opus-4-20250514", "claude-haiku-4-5" }

MODEL_MAPPING ==
    [ sonnet |-> [azure |-> "claude-3-5-sonnet-20241022",
                  anthropic |-> "claude-sonnet-4-5-20250929"],
      haiku  |-> [azure |-> "claude-3-5-haiku-20241022",
                  anthropic |-> "claude-haiku-4-5"],
      opus   |-> [azure |-> "claude-3-opus-20240229",
                  anthropic |-> "claude-opus-4-20250514"] ]

\* mapping[model] || model
Lookup(mapping, m) == IF m \in DOMAIN mapping THEN mapping[m] ELSE m

\* the haiku entry points at the sonnet deployment
mapModelToAzure_HaikuAsSonnet(m) ==
    Lookup([x \in {"claude-sonnet-4-5-20250929", "claude-haiku-4-5",
                   "claude-opus-4-20250514"} |->
              CASE x = "claude-sonnet-4-5-20250929" -> "claude-3-5-sonnet-20241022"
                [] x = "claude-haiku-4-5" -> "claude-3-5-sonnet-20241022"
                [] x = "claude-opus-4-20250514" -> "claude-3-opus-20240229"], m)

\* AIService.mapModelToAnthropic
mapModelToAnthropic(m) ==
    Lookup([x \in {"claude-3-5-sonnet-20241022", "claude-3-5-haiku-20241022",
                   "claude-3-opus-20240229"} |->
              CASE x = "claude-3-5-sonnet-20241022" -> "claude-sonnet-4-5-20250929"
                [] x = "claude-3-5-haiku-20241022" -> "claude-haiku-4-5"
                [] x = "claude-3-opus-20240229" -> "claude-opus-4-20250514"], m)

\* AIService.mapModelToAzure
mapModelToAzure(m) ==
    Lookup([x \in {"claude-sonnet-4-5-20250929", "claude-haiku-4-5",
                   "claude-opus-4-20250514"} |->
              CASE x = "claude-sonnet-4-5-20250929" -> "claude-3-5-sonnet-20241022"
                [] x = "claude-haiku-4-5" -> "claude-3-5-haiku-20241022"
                [] x = "claude-opus-4-20250514" -> "claude-3-opus-20240229"], m)

\* AIService.execute, catch block: the request goes to Anthropic with its
\* model id translated
MapModelToAnthropic ==
    /\ model \in AIModel
    /\ Len(hops) < MaxHops
    /\ model' = mapModelToAnthropic(model)
    /\ hops' = Append(hops, [to |-> "anthropic", from |-> model, result |-> model'])
    /\ UNCHANGED <<written, content, extractions>>
    /\ UNCHANGED <<svcVars, ctlVars>>

\* AIService.execute, catch block: the request goes to Azure with its model
\* id translated
MapModelToAzure ==
    /\ model \in AIModel
    /\ Len(hops) < MaxHops
    /\ model' = mapModelToAzure(model)
    /\ hops' = Append(hops, [to |-> "azure", from |-> model, result |-> model'])
    /\ UNCHANGED <<written, content, extractions>>
    /\ UNCHANGED <<svcVars, ctlVars>>

InitModels ==
    /\ SvcInit
    /\ CtlIdle
    /\ config = [maxDepth |-> 0, synthesisInterval |-> 3,
                 enableMiniSynthesis |-> TRUE, continueOnFailure |-> FALSE]
    /\ model \in AIModel
    /\ hops = << >>
    /\ written = << >>
    /\ content = << >>
    /\ extractions = << >>

NextModels ==
    \/ MapModelToAnthropic
    \/ MapModelToAzure

SpecModels == InitModels /\ [][NextModels]_vars

\* the short names of MODEL_MAPPING
Families == DOMAIN MODEL_MAPPING

\* the ids MODEL_MAPPING has for provider p
MappedIds(p) == { MODEL_MAPPING[f][p] : f \in Families }

\* C21: on failover the model id is translated by a fixed bidirectional
\* table: a mapped Azure id translated to its Anthropic id and back, and a
\* mapped Anthropic id translated to its Azure id and back, gives the
\* original id; both directions agree with MODEL_MAPPING for sonnet, haiku
\* and opus; an id without an entry is passed through unchanged.
C21_ModelIdRoundTrip ==
    /\ \A k \in 1..Len(hops) :
         LET h == hops[k]
         IN  /\ \A f \in Families :
                   h.from = MODEL_MAPPING[f][Other(h.to)]
                       => h.result = MODEL_MAPPING[f][h.to]
             /\ h.from \notin MappedIds(Other(h.to)) => h.result = h.from
    /\ \A k \in 1..Len(hops) :
         (/\ k < Len(hops)
          /\ hops[k + 1].to = Other(hops[k].to)
          /\ hops[k].from \in MappedIds(Other(hops[k].to)))
            => hops[k + 1].result = hops[k].from

\* C21 witness: the haiku id of Anthropic went to Azure and back
C21_HaikuThereAndBack ==
    /\ Len(hops) >= 2
    /\ hops[1] = [to |-> "azure", from |-> "claude-haiku-4-5",
                  result |-> "claude-3-5-haiku-20241022"]
    /\ hops[2] = [to |-> "anthropic", from |-> "claude-3-5-haiku-20241022",
                  result |-> "claude-haiku-4-5"]

----------------------------------------------------------------------------
\* The Artifact Extractor (extractArtifacts, the same code in AzureAIProvider
\* and in AIService). A text is a sequence of characters.

MaxBlocks == 2
MaxExtractions == 2
MaxClock == 2

Digits == <<"0","1","2","3","4","5","6","7","8","9">>

\* the characters of the class \w
WordChars == Range(Lower) \cup Range(Upper) \cup Range(Digits) \cup {"_"}

\* the line feed, the tab and the backtick, each one character
LF == "\n"

TAB == "\t"

Backtick == "BACKTICK"

\* the characters String.prototype.trim removes
WhiteSpace == {" ", LF, TAB}

Rep(c, n) == [i \in 1..n |-> c]

UpperChar(c) ==
    IF \E i \in 1..Len(Lower) : Lower[i] = c
    THEN Upper[CHOOSE i \in 1..Len(Lower) : Lower[i] = c]
    ELSE c

RECURSIVE TrimStart(_)
TrimStart(s) ==
    IF s # << >> /\ Head(s) \in WhiteSpace THEN TrimStart(Tail(s)) ELSE s

RECURSIVE TrimEnd(_)
TrimEnd(s) ==
    IF s # << >> /\ s[Len(s)] \in WhiteSpace
    THEN TrimEnd(SubSeq(s, 1, Len(s) - 1)) ELSE s

\* String.prototype.trim
Trim(s) == TrimEnd(TrimStart(s))

Fence == <<Backtick, Backtick, Backtick>>

\* the text s has a fence (three backticks) at position p
FenceAt(s, p) == p + 2 <= Len(s) /\ SubSeq(s, p, p + 2) = Fence

\* the tag pattern is greedy: the first position from p on that holds no word character
RECURSIVE WordEnd(_, _)
WordEnd(s, p) ==
    IF p <= Len(s) /\ s[p] \in WordChars THEN WordEnd(s, p + 1) ELSE p

\* the body pattern is lazy: the first fence from p on, 0 when there is none
RECURSIVE NextFence(_, _)
NextFence(s, p) ==
    IF p > Len(s) THEN 0
    ELSE IF FenceAt(s, p) THEN p
    ELSE NextFence(s, p + 1)

NoMatch == [found |-> FALSE]

\* codeBlockRegex (fence, optional word, newline, lazy body, fence) tried at
\* position p of s
MatchAt(s, p) ==
    IF ~FenceAt(s, p) THEN NoMatch
    ELSE LET w == WordEnd(s, p + 3)
         IN  IF ~(w <= Len(s) /\ s[w] = LF) THEN NoMatch
             ELSE LET q == NextFence(s, w + 1)
                  IN  IF q = 0 THEN NoMatch
                      ELSE [found |-> TRUE,
                            tag |-> SubSeq(s, p + 3, w - 1),
                            body |-> SubSeq(s, w + 1, q - 1),
                            lastIndex |-> q + 3]

\* codeBlockRegex.exec(content) with lastIndex = p
RECURSIVE Exec(_, _)
Exec(s, p) ==
    IF p > Len(s) THEN NoMatch
    ELSE LET m == MatchAt(s, p)
         IN  IF m.found THEN m ELSE Exec(s, p + 1)

\* the matches of the while loop, in order
RECURSIVE Matches(_, _)
Matches(s, p) ==
    LET m == Exec(s, p)
    IN  IF m.found THEN << m >> \o Matches(s, m.lastIndex) ELSE << >>

codeLanguages ==
    { <<"j","a","v","a","s","c","r","i","p","t">>,
      <<"t","y","p","e","s","c","r","i","p","t">>,
      <<"p","y","t","h","o","n">>,
      <<"j","a","v","a">>,
      <<"r","u","s","t">>,
      <<"g","o">>,
      <<"c","p","p">>,
      <<"c">>,
      <<"h","t","m","l">>,
      <<"c","s","s">>,
      <<"j","s","x">>,
      <<"t","s","x">>,
      <<"r","u","b","y">>,
      <<"p","h","p">>,
      <<"s","w","i","f","t">>,
      <<"k","o","t","l","i","n">>,
      <<"s","c","a","l","a">> }

vizLanguages ==
    { <<"m","e","r","m","a","i","d">>,
      <<"g","r","a","p","h","v","i","z">>,
      <<"d","o","t">>,
      <<"p","l","a","n","t","u","m","l">> }

dataLanguages ==
    { <<"j","s","o","n">>,
      <<"y","a","m","l">>,
      <<"t","o","m","l">>,
      <<"x","m","l">>,
      <<"c","s","v">> }

\* getArtifactType comparing the tag as written, without toLowerCase
getArtifactType_CaseSensitive(language) ==
    IF language \in codeLanguages THEN "code"
    ELSE IF language \in vizLanguages THEN "visualization"
    ELSE IF language \in dataLanguages THEN "data"
    ELSE "document"

\* AzureAIProvider.getArtifactType
getArtifactType(language) ==
    LET lang == ToLowerCase(language)
    IN  IF lang \in codeLanguages THEN "code"
        ELSE IF lang \in vizLanguages THEN "visualization"
        ELSE IF lang \in dataLanguages THEN "data"
        ELSE "document"

\* language.charAt(0).toUpperCase() + language.slice(1)
capitalizeFirst(language) ==
    IF language = << >> THEN << >>
    ELSE << UpperChar(Head(language)) >> \o Tail(language)

\* code.split('\n').length
lineCount(code) == Cardinality({ i \in 1..Len(code) : code[i] = LF }) + 1

\* match[1] || 'text'
LanguageOf(m) == IF m.tag = << >> THEN <<"t","e","x","t">> ELSE m.tag

\* the artifact pushed for the match m, the index-th kept, with Date.now()
\* reading time
Artifact(m, index, time) ==
    LET language == LanguageOf(m)
        code == Trim(m.body)
    IN  [id |-> [time |-> time, index |-> index],
         type |-> getArtifactType(language),
         title |-> capitalizeFirst(language) \o <<" ","C","o","d","e">>,
         content |-> code,
         metadata |-> [language |-> language, lineCount |-> lineCount(code)],
         createdAt |-> time]

\* if (code.length > 10)
Kept(code) == Len(code) > 10

\* the loop ends at the first block that is not kept
RECURSIVE Collect_StopAtShort(_, _, _, _)
Collect_StopAtShort(ms, index, now, ticks) ==
    IF ms = << >> THEN << >>
    ELSE IF Kept(Trim(Head(ms).body))
    THEN << Artifact(Head(ms), index, IF ticks THEN now + index ELSE now) >>
           \o Collect_StopAtShort(Tail(ms), index + 1, now, ticks)
    ELSE << >>

\* the while loop of extractArtifacts over the matches ms: index counts the
\* artifacts pushed; the clock reads now at the first push and, when it
\* ticks, one more at each further push
RECURSIVE Collect(_, _, _, _)
Collect(ms, index, now, ticks) ==
    IF ms = << >> THEN << >>
    ELSE IF Kept(Trim(Head(ms).body))
    THEN << Artifact(Head(ms), index, IF ticks THEN now + index ELSE now) >>
           \o Collect(Tail(ms), index + 1, now, ticks)
    ELSE Collect(Tail(ms), index, now, ticks)

\* extractArtifacts(content)
extractArtifacts(text, now, ticks) == Collect(Matches(text, 1), 0, now, ticks)

\* a fenced block as a completion text has it: the tag after the opening
\* fence (none when empty) and the lines up to the closing fence
Block(tag, body) == [tag |-> tag, body |-> body]

Blocks ==
    { Block(<<"p","y","t","h","o","n">>, Rep("x", 19) \o << LF >> \o Rep("y", 20)),
      Block(<<"j","s","o","n">>, Rep("j", 5)),
      Block(<<"j","s","o","n">>, << " " >> \o Rep("k", 10) \o << LF >>),
      Block(<< >>, Rep("m", 11)),
      Block(<<"M","e","r","m","a","i","d">>, Rep("g", 11)),
      Block(<<"Y","A","M","L">>, Rep("a", 5) \o << LF >> \o Rep("b", 6)),
      Block(<<"m","d">>, Rep("d", 12)),
      Block(<<"c","+","+">>, Rep("c", 11)) }

\* the characters of a fenced block
RenderBlock(b) == Fence \o b.tag \o << LF >> \o b.body \o Fence

\* a completion text: a line of prose, then the blocks, each on lines of
\* its own
RECURSIVE Render(_)
Render(bs) ==
    IF bs = << >> THEN <<"o","k">>
    ELSE Render(SubSeq(bs, 1, Len(bs) - 1)) \o << LF >> \o RenderBlock(bs[Len(bs)])
             \o << LF >>

BlockLists == SeqsUpTo(Blocks, MaxBlocks)

\* the artifacts are extracted only once per text
ExtractArtifacts_OncePerText ==
    /\ Len(extractions) < MaxExtractions
    /\ \E now \in 1..MaxClock, ticks \in BOOLEAN :
          extractions' = Append(extractions,
                                IF extractions = << >>
                                THEN extractArtifacts(content, now, ticks)
                                ELSE << >>)
    /\ UNCHANGED <<written, content, model, hops>>
    /\ UNCHANGED <<svcVars, ctlVars>>

\* parseResponse, executeStreaming and their Anthropic counterparts hand the
\* completion text to extractArtifacts, which reads the clock as it goes
ExtractArtifacts ==
    /\ Len(extractions) < MaxExtractions
    /\ \E now \in 1..MaxClock, ticks \in BOOLEAN :
          extractions' = Append(extractions, extractArtifacts(content, now, ticks))
    /\ UNCHANGED <<written, content, model, hops>>
    /\ UNCHANGED <<svcVars, ctlVars>>

InitExtract ==
    /\ SvcInit
    /\ CtlIdle
    /\ config = [maxDepth |-> 0, synthesisInterval |-> 3,
                 enableMiniSynthesis |-> TRUE, continueOnFailure |-> FALSE]
    /\ model = "none"
    /\ hops = << >>
    /\ written \in BlockLists
    /\ content = Render(written)
    /\ extractions = << >>

NextExtract == ExtractArtifacts

SpecExtract == InitExtract /\ [][NextExtract]_vars

\* the fenced blocks the extractor finds in the text at hand
Found == Matches(content, 1)

\* what is compared of an artifact list: everything but the identifiers and
\* the creation times
Shape(as) ==
    [i \in 1..Len(as) |->
        [type |-> as[i].type, title |-> as[i].title, content |-> as[i].content,
         metadata |-> as[i].metadata]]

\* the trimmed contents of the fenced blocks found that have at least n
\* characters, in order
RECURSIVE LongEnough(_, _)
LongEnough(ms, n) ==
    IF ms = << >> THEN << >>
    ELSE IF Len(Trim(Head(ms).body)) >= n
    THEN << Trim(Head(ms).body) >> \o LongEnough(Tail(ms), n)
    ELSE LongEnough(Tail(ms), n)

\* C24: the Artifact Extractor keeps a fenced block exactly when its trimmed
\* content has at least 10 characters and discards it exactly when it has
\* fewer than 10.
C24_KeptFromTenCharacters ==
    \A k \in 1..Len(extractions) :
        [i \in 1..Len(extractions[k]) |-> extractions[k][i].content]
            = LongEnough(Found, 10)

\* C25: the artifact type is a function of the language tag alone, compared
\* case-insensitively: a programming-language tag gives code, a diagramming
\* tag gives visualization, a structured-data tag gives data, any other tag
\* and a missing tag (language "text") give document; the three tag sets are
\* pairwise disjoint.
C25_TypeFromTag ==
    /\ codeLanguages \cap vizLanguages = {}
    /\ codeLanguages \cap dataLanguages = {}
    /\ vizLanguages \cap dataLanguages = {}
    /\ \A k \in 1..Len(extractions) : \A i \in 1..Len(extractions[k]) :
         LET a == extractions[k][i]
             lang == ToLowerCase(a.metadata.language)
         IN  /\ a.type = "code" <=> lang \in codeLanguages
             /\ a.type = "visualization" <=> lang \in vizLanguages
             /\ a.type = "data" <=> lang \in dataLanguages
             /\ a.type = "document" <=>
                  lang \notin codeLanguages \cup vizLanguages \cup dataLanguages
             /\ a.metadata.language = <<"t","e","x","t">> => a.type = "document"

\* a text whose blocks are tagged Mermaid and YAML gave a visualization and a
\* data artifact
C25_MixedCaseTagsClassified ==
    \E k \in 1..Len(extractions) :
        /\ Len(extractions[k]) = 2
        /\ extractions[k][1].metadata.language = <<"M","e","r","m","a","i","d">>
        /\ extractions[k][1].type = "visualization"
        /\ extractions[k][2].metadata.language = <<"Y","A","M","L">>
        /\ extractions[k][2].type = "data"

\* the type and content of each artifact of a list, in order
TypeAndContent(as) ==
    [i \in 1..Len(as) |-> [type |-> as[i].type, content |-> as[i].content]]

\* whether a written block is below the threshold of n characters
Short(b, n) == Len(Trim(b.body)) < n

\* the written blocks without those below the threshold of n characters
RECURSIVE WithoutShort(_, _)
WithoutShort(bs, n) ==
    IF bs = << >> THEN << >>
    ELSE IF Short(Head(bs), n) THEN WithoutShort(Tail(bs), n)
    ELSE << Head(bs) >> \o WithoutShort(Tail(bs), n)

PythonBlock ==
    Block(<<"p","y","t","h","o","n">>, Rep("x", 19) \o << LF >> \o Rep("y", 20))

JsonBlock == Block(<<"j","s","o","n">>, Rep("j", 5))

C28_ArtifactIdsUnique ==
    /\ \A k \in 1..Len(extractions) :
         \A i \in 1..Len(extractions[k]), j \in 1..Len(extractions[k]) :
             i # j => extractions[k][i].id # extractions[k][j].id
    /\ \A j \in 1..Len(extractions), k \in 1..Len(extractions) :
         j # k =>
           \A a \in Range(extractions[j]), b \in Range(extractions[k]) :
               a.id # b.id

\* the waits of the executeWithRetry call under way: one for each failed
\* attempt but the one in flight
ChainWaits ==
    LET n == IF waiting THEN attempt ELSE attempt - 1
    IN  SubSeq(delays, Len(delays) - n + 1, Len(delays))

\* C29: in executeWithRetry the wait before retry k is 2000 * 2^(k-1) ms,
\* 2000 then 4000; when all 3 attempts fail exactly 2 waits have occurred,
\* and the failure of the last attempt adds no wait.
C29_BackoffDoubles ==
    /\ []((phase \in {"primary", "failover"} /\ target = "azure") =>
            /\ attempt <= MAX_RETRIES
            /\ Len(ChainWaits) = (IF waiting THEN attempt ELSE attempt - 1)
            /\ Len(ChainWaits) <= 2
            /\ \A k \in 1..Len(ChainWaits) : ChainWaits[k] = 2000 * Pow2(k - 1)
            /\ Len(ChainWaits) = 2 =>
                  ChainWaits = <<2000, 4000>> /\ ChainWaits[2] = 2 * ChainWaits[1])
    /\ [][(InFlight("azure") /\ attempt = MAX_RETRIES) =>
            (delays' = delays /\ ~waiting')]_vars

\* the third Azure attempt of a request failed and the request ended in an
\* error after two waits
C29_ThreeAttemptsTwoWaits ==
    /\ phase = "done"
    /\ outcome = "error"
    /\ calls = [azure |-> 3, anthropic |-> 0]
    /\ raised.from = "azure"
    /\ delays = <<2000, 4000>>

----------------------------------------------------------------------------
\* Claims about the synthesis window

\* C30: whenever a synthesis is run, its window is exactly the
\* synthesisInterval most recent stages of the context, those at positions
\* total - interval + 1 .. total (the stages of these numbers when no stage
\* failed); the windows of successive syntheses are disjoint, and every
\* stage of a window has status complete.
C30_SynthesisWindow ==
    /\ [](\A w \in 1..Len(windows) :
            /\ Len(windows[w]) = config.synthesisInterval
            /\ \A k \in 1..Len(windows[w]) :
                 /\ windows[w][k] \in 1..Len(stages)
                 /\ stages[windows[w][k]].status = "complete"
            /\ \A v \in 1..Len(windows) :
                 v # w => Range(windows[v]) \cap Range(windows[w]) = {})
    /\ [](cpc = "synthesis" =>
            LET total == Len(previousStages)
                interval == config.synthesisInterval
                window == windows[Len(windows)]
            IN  /\ total >= interval
                /\ window = [k \in 1..interval |->
                               previousStages[total - interval + k]]
                /\ \A i \in 1..Len(stages) :
                     (stages[i].status = "complete" /\ i \notin Range(window))
                       => i < window[1]
                /\ (\A i \in 1..Len(stages) : stages[i].status = "complete")
                     => window = [k \in 1..interval |-> total - interval + k])
    /\ [][cpc' = "synthesis" /\ cpc # "synthesis"
            => Len(windows') = Len(windows) + 1]_vars

\* the second synthesis of a Journey with an interval of 3 runs over stages
\* 4 to 6, the first having run over stages 1 to 3
C30_SecondWindowFourToSix ==
    /\ cpc = "synthesis"
    /\ config.synthesisInterval = 3
    /\ windows = << <<1, 2, 3>>, <<4, 5, 6>> >>

----------------------------------------------------------------------------
\* Claims about the streamed chunks and the provider configuration

\* C31: for every streaming execute call that returns successfully, the
\* content chunks handed to onChunk during the call, concatenated, equal the
\* content of the returned response, also after retries of a stream that
\* failed midway and after a failover.
C31_ChunksEqualResponse ==
    (phase = "done" /\ outcome = "ok" /\ stream)
        => ContentOf(chunks) = response.content

\* C32: after any sequence of initialize and setActiveProvider calls on an
\* initialized AIService the active provider has been initialized with
\* credentials: the Azure provider is initialized when azure is active, the
\* Anthropic client exists when anthropic is active.
C32_ActiveProviderReady ==
    isInitialized =>
        /\ activeProvider = "azure" => azureInitialized
        /\ activeProvider = "anthropic" => anthropicClient

\* the providers the configuration cfg carries credentials for
Configured(cfg) ==
    { p \in Providers : IF p = "azure" THEN cfg.azure ELSE cfg.anthropic }

\* the providers execute can reach: the active one as primary, the other one
\* as failover target, each only when it is ready to take a call
CanReach ==
    { p \in Providers :
        \/ activeProvider = p /\ Ready(p)
        \/ FallbackTarget = p }

\* C33: after initialize(config) the providers execute can reach, as primary
\* or as failover target, are exactly the providers configured in that
\* config: a provider configured by an earlier initialize call only is not
\* reached.
C33_OnlyLatestConfigReached ==
    [][\A cfg \in Configs : Initialize(cfg) => CanReach' = Configured(cfg)]_vars

\* C34: testConnection returns true only if the active provider itself
\* answered the probe with CONNECTION_OK, never on the strength of an answer
\* of the other provider obtained through failover.
C34_ProbeAnsweredByActive ==
    (probe /\ phase = "done" /\ testConnectionResult)
        => (response.provider = primary /\ fallbackTo = "none")

----------------------------------------------------------------------------
\* Termination of execute

\* Termination depends on the kind of each answer (a result, a failure that
\* is retried, a failure that is not), not on the text it carries: one
\* answer of each kind is kept.
AzureErrorKinds == { <<S401, BodyDenied>>, <<S503, BodyEmpty>> }

AzureBodyKinds == {
    [json |-> FALSE, shape |-> "none", content |-> << >>],
    [json |-> TRUE,  shape |-> "full", content |-> <<"a">>] }

\* a provider call in flight returns or fails, and the timer of a backoff
\* fires
Responds ==
    \/ BackoffElapsed
    \/ AzureFetchRejects
    \/ \E r \in AzureErrorKinds : AzureHttpError(r)
    \/ \E body \in AzureBodyKinds : AzureNonStreaming(body)
    \/ AzureNoBody
    \/ \E ok \in BOOLEAN : AzureStreaming(<< >>, ok)
    \/ \E r \in AnthropicErrors : AnthropicError(r)
    \/ AnthropicNonStreaming(<< <<"a">> >>)
    \/ \E ok \in BOOLEAN : AnthropicStreaming(<< >>, ok)

NextLive ==
    \/ \E cfg \in Configs : Initialize(cfg)
    \/ \E p \in Providers : SetActiveProvider(p)
    \/ \E st \in BOOLEAN : Execute(st)
    \/ TestConnection
    \/ Responds

\* the service with providers that always answer in the end
SpecLive == Init /\ [][NextLive]_vars /\ WF_vars(Responds)

\* the provider calls one execute request can make: MAX_RETRIES attempts of
\* executeWithRetry or of the SDK client on the primary, as many on the
\* failover target
MaxCalls == 2 * MAX_RETRIES

\* C35: every execute call terminates: when every provider call returns or
\* fails in the end, execute returns a response or raises an error, after a
\* bounded number of provider calls.
C35_ExecuteTerminates ==
    /\ [](calls["azure"] + calls["anthropic"] <= MaxCalls)
    /\ [](attempt <= MAX_RETRIES)
    /\ (phase \in {"primary", "failover"}) ~> (phase = "done")

\* a request ended after the most provider calls it can make
C35_EndedAfterSixCalls ==
    /\ phase = "done"
    /\ calls["azure"] + calls["anthropic"] = MaxCalls

----------------------------------------------------------------------------
\* Claims about the active provider

\* C36: failover is per request and not sticky: no step of execute, whether
\* it succeeds on the primary, succeeds through failover or fails, changes
\* the active provider, and the next execute call tries the active provider
\* first.
C36_FailoverNotSticky ==
    /\ [][(\A cfg \in Configs : ~Initialize(cfg))
            /\ (\A p \in Providers : ~SetActiveProvider(p))
            => activeProvider' = activeProvider]_vars
    /\ [][(phase \in {"idle", "done"} /\ phase' \in {"primary", "failover"})
            => (/\ primary' = activeProvider
                /\ phase' = "primary" => target' = activeProvider
                /\ phase' = "failover" => ~Ready(activeProvider))]_vars

\* a request succeeded through failover and the active provider is still the
\* one that failed
C36_ActiveUnchangedAfterFailover ==
    /\ phase = "done"
    /\ outcome = "ok"
    /\ fallbackTo = Other(primary)
    /\ response.provider = fallbackTo
    /\ activeProvider = primary

\* C37: setActiveProvider(p) on a provider that is not initialized raises
\* and leaves the active provider unchanged; on an initialized provider it
\* sets the active provider to p and changes nothing else.
C37_SetActiveProviderGuarded ==
    /\ [][\A p \in Providers :
            SetActiveProvider(p) =>
              /\ IF Ready(p)
                 THEN activeProvider' = p /\ ~switchRejected'
                 ELSE activeProvider' = activeProvider /\ switchRejected'
              /\ isInitialized' = isInitialized
              /\ anthropicClient' = anthropicClient
              /\ azureInitialized' = azureInitialized
              /\ UNCHANGED <<reqVars, flowVars, dataVars>>]_vars
    /\ [][(activeProvider' # activeProvider /\ ~Ready(activeProvider)')
            => \E cfg \in Configs : Initialize(cfg)]_vars
    /\ [][(switchRejected' /\ ~switchRejected)
            => (activeProvider' = activeProvider /\ \E p \in Providers : ~Ready(p))]_vars

\* a switch to anthropic was refused for want of a client and azure is
\* still active
C37_SwitchRefused ==
    /\ isInitialized
    /\ switchRejected
    /\ activeProvider = "azure"
    /\ ~anthropicClient
\* C38: the content assembled by a streaming Azure call is the in-order
\* concatenation of the delta.content fragments of all data frames of the
\* stream, however the transport cuts the stream into reads.
C38_SplitFramesAssembled ==
    (phase = "done" /\ outcome = "ok" /\ stream /\ response.provider = "azure")
        => response.content = sent

----------------------------------------------------------------------------
\* The artifact extractor of AIService, which serves the Anthropic path

\* AIService.getArtifactType
AIService_getArtifactType(language) ==
    LET serviceCodeLanguages ==
            { <<"j","a","v","a","s","c","r","i","p","t">>,
              <<"t","y","p","e","s","c","r","i","p","t">>,
              <<"p","y","t","h","o","n">>,
              <<"j","a","v","a">>,
              <<"r","u","s","t">>,
              <<"g","o">>,
              <<"c","p","p">>,
              <<"c">>,
              <<"h","t","m","l">>,
              <<"c","s","s">>,
              <<"j","s","x">>,
              <<"t","s","x">>,
              <<"r","u","b","y">>,
              <<"p","h","p">>,
              <<"s","w","i","f","t">>,
              <<"k","o","t","l","i","n">>,
              <<"s","c","a","l","a">> }
        serviceVizLanguages ==
            { <<"m","e","r","m","a","i","d">>,
              <<"g","r","a","p","h","v","i","z">>,
              <<"d","o","t">>,
              <<"p","l","a","n","t","u","m","l">> }
        serviceDataLanguages ==
            { <<"j","s","o","n">>,
              <<"y","a","m","l">>,
              <<"t","o","m","l">>,
              <<"x","m","l">>,
              <<"c","s","v">> }
        lang == ToLowerCase(language)
    IN  IF lang \in serviceCodeLanguages THEN "code"
        ELSE IF lang \in serviceVizLanguages THEN "visualization"
        ELSE IF lang \in serviceDataLanguages THEN "data"
        ELSE "document"

\* the title is the language tag as written
AIService_Artifact_TitleAsWritten(m, index, time) ==
    LET language == IF m.tag = << >> THEN <<"t","e","x","t">> ELSE m.tag
        code == Trim(m.body)
    IN  [id |-> [time |-> time, index |-> index],
         type |-> AIService_getArtifactType(language),
         title |-> language \o <<" ","C","o","d","e">>,
         content |-> code,
         metadata |-> [language |-> language,
                       lineCount |-> Len(SelectSeq(code, LAMBDA c : c = LF)) + 1],
         createdAt |-> time]

\* AIService.extractArtifacts, the artifact pushed for the match m: the
\* title is built in place, language.charAt(0).toUpperCase() +
\* language.slice(1)
AIService_Artifact(m, index, time) ==
    LET language == IF m.tag = << >> THEN <<"t","e","x","t">> ELSE m.tag
        code == Trim(m.body)
        charAt0 == IF language = << >> THEN << >> ELSE << UpperChar(language[1]) >>
        slice1 == SubSeq(language, 2, Len(language))
    IN  [id |-> [time |-> time, index |-> index],
         type |-> AIService_getArtifactType(language),
         title |-> charAt0 \o slice1 \o <<" ","C","o","d","e">>,
         content |-> code,
         metadata |-> [language |-> language,
                       lineCount |-> Len(SelectSeq(code, LAMBDA c : c = LF)) + 1],
         createdAt |-> time]

\* AIService.extractArtifacts, the while loop over the matches ms
RECURSIVE AIService_Collect(_, _, _, _)
AIService_Collect(ms, index, now, ticks) ==
    IF ms = << >> THEN << >>
    ELSE IF Len(Trim(Head(ms).body)) > 10
    THEN << AIService_Artifact(Head(ms), index, IF ticks THEN now + index ELSE now) >>
           \o AIService_Collect(Tail(ms), index + 1, now, ticks)
    ELSE AIService_Collect(Tail(ms), index, now, ticks)

\* AIService.extractArtifacts(content); the regular expression is the one
\* of AzureAIProvider, character by character
AIService_extractArtifacts(text, now, ticks) ==
    AIService_Collect(Matches(text, 1), 0, now, ticks)

\* executeAnthropicStreaming and executeAnthropicNonStreaming hand the
\* completion text to this.extractArtifacts
AIService_ExtractArtifacts ==
    /\ Len(extractions) < MaxExtractions
    /\ \E now \in 1..MaxClock, ticks \in BOOLEAN :
          extractions' = Append(extractions,
                                AIService_extractArtifacts(content, now, ticks))
    /\ UNCHANGED <<written, content, model, hops>>
    /\ UNCHANGED <<svcVars, ctlVars>>

\* a completion text comes from Azure first, and the same text from
\* Anthropic afterwards: the first extraction is the one of AzureAIProvider,
\* the later ones are those of AIService
NextCopies ==
    \/ extractions = << >> /\ ExtractArtifacts
    \/ extractions # << >> /\ AIService_ExtractArtifacts

SpecCopies == InitExtract /\ [][NextCopies]_vars

\* C39: the artifact extractors of AzureAIProvider and of AIService are
\* equivalent: on every text they give lists of the same length that agree,
\* position by position, in type, title, content and metadata.
C39_CopiesEquivalent ==
    \A k \in 2..Len(extractions) :
        /\ Len(extractions[k]) = Len(extractions[1])
        /\ \A i \in 1..Len(extractions[k]) :
             /\ extractions[k][i].type = extractions[1][i].type
             /\ extractions[k][i].title = extractions[1][i].title
             /\ extractions[k][i].content = extractions[1][i].content
             /\ extractions[k][i].metadata = extractions[1][i].metadata

\* both copies were given a text with a block tagged Mermaid and a block
\* without a tag, and both gave a visualization titled Mermaid Code and a
\* document titled Text Code
C39_BothCopiesTwoArtifacts ==
    /\ Len(extractions) = 2
    /\ Len(extractions[1]) = 2
    /\ Len(extractions[2]) = 2
    /\ extractions[2][1].type = "visualization"
    /\ extractions[2][1].title = <<"M","e","r","m","a","i","d"," ","C","o","d","e">>
    /\ extractions[2][2].type = "document"
    /\ extractions[2][2].title = <<"T","e","x","t"," ","C","o","d","e">>
    /\ extractions[2][2].metadata = [language |-> <<"t","e","x","t">>, lineCount |-> 1]

====
